---- MODULE Spec2Model ----
(***************************************************************************)
(* Wallet key management of the PAW repository:                            *)
(*   - wallet/fernet_storage.py: password based encrypted persistence      *)
(*   - archive/sdk/python/paw/wallet.py: PawWallet (mnemonic, keys, sign)  *)
(*   - archive/examples/python/basic/create_wallet.py: PAWWallet           *)
(*                                                                         *)
(* Text is a sequence of code points, bytes are sequences of 0..255.       *)
(* UTF-8 and base64 are computed as the Python standard library computes   *)
(* them.  The cryptographic primitives (PBKDF2, AES-CBC, HMAC) are ideal:   *)
(* a value is the term that produced it, so two values are equal exactly   *)
(* when they were computed from equal inputs.  The one non-injective step  *)
(* that HMAC itself defines, the normalisation of its key to one block, is  *)
(* computed.                                                               *)
(***************************************************************************)
EXTENDS Integers, Sequences, FiniteSets, TLC

VARIABLES
    payload,     \* <<>> or <<FernetPayload>>: the blob held by durable storage
    stored,      \* <<>> or the encrypt_wallet call that made it: state, password, the
                 \* iteration count of the time, and the payload it returned
    earlier,     \* <<>> or the encrypt_wallet call before that one
    kdfIterations, \* iterations= of _derive_fernet_key in the revision that runs
    tampered,    \* "none" | "salt" | "data": what was modified in the blob since
    decPw,       \* password given to the last decrypt_wallet call
    out,         \* outcome of the last decrypt_wallet call
    strength,    \* argument of the last generate_mnemonic call (0: none)
    base,        \* the phrase generate_mnemonic returned
    phrase,      \* the phrase handed to validate_mnemonic
    origin,      \* how phrase was made from base
    valid,       \* outcome of validate_mnemonic(phrase)
    wallet,      \* the PawWallet instances: prefix, _mnemonic, _private_key, _public_key, _address
    example,     \* <<>> or <<PAWWallet>>: the example wallet: mnemonic, private_key, public_key, address
    lastCall,    \* the most recent call on a wallet or on the client: what was called,
                 \* with what, and how it ended
    sigs,        \* the most recent (at most two) calls of sign since the wallets that
                 \* made them were initialised: key, message and outcome
    cli,         \* the calls of create_wallet, import_wallet and main so far, each with
                 \* what it printed, returned or raised, and the exit status
    client,      \* PawClient: _wallet and _tx_builder, <<>> for None
    lastConnected, \* the wallet given to the last connect_wallet, <<>> for none
    tx,          \* the calls of TxBuilder.sign_and_broadcast: where each is suspended,
                 \* its arguments and locals, and what it read from the wallet
    net,         \* the requests sent to the REST endpoint, in order
    lastGood     \* per wallet: <<>> or the phrase of the most recent from_mnemonic call
                 \* on it that returned

storeVars == <<payload, stored, earlier, kdfIterations, tampered, decPw, out>>

mnemVars == <<strength, base, phrase, origin, valid>>

walletVars == <<wallet, example, lastCall, sigs, lastGood>>

cliVars == <<cli>>

txVars == <<client, lastConnected, tx, net>>

vars == <<storeVars, mnemVars, walletVars, cliVars, txVars>>

(***************************************************************************)
(* Bounds of the model.                                                    *)
(***************************************************************************)
MaxStateLen == 2    \* code points in a serialized state
MaxPwLen == 2       \* code points in a password
MaxSalt == 1        \* os.urandom(16) draws one of MaxSalt + 1 salts
MaxIv == 1          \* Fernet draws one of MaxIv + 1 IVs
MaxTamperLen == 1   \* longest state and password of a blob that is modified in storage
MaxEntropy == 1     \* secrets.token_bytes draws one of MaxEntropy + 1 values of each length
MaxMessage == 1      \* sign is given one of MaxMessage + 1 messages
MaxNonce == 3        \* sign_digest draws one of MaxNonce nonces
MaxCliCalls == 2     \* calls of create_wallet, import_wallet and main
MaxRequests == 2     \* requests that sign_and_broadcast sends
MaxTxMessages == 1   \* messages in a transaction

(***************************************************************************)
(* Sequences.                                                              *)
(***************************************************************************)
RECURSIVE SeqsUpTo(_, _)
SeqsUpTo(S, n) ==
    IF n = 0 THEN {<<>>}
    ELSE LET shorter == SeqsUpTo(S, n - 1)
         IN  shorter \cup {Append(s, x) : s \in {t \in shorter : Len(t) = n - 1}, x \in S}

Repeat(x, n) == [i \in 1..n |-> x]

(***************************************************************************)
(* str.encode() and bytes.decode(): UTF-8.                                 *)
(***************************************************************************)
Utf8Char(cp) ==
    IF cp < 128 THEN <<cp>>
    ELSE IF cp < 2048 THEN <<192 + (cp \div 64), 128 + (cp % 64)>>
    ELSE <<224 + (cp \div 4096), 128 + ((cp \div 64) % 64), 128 + (cp % 64)>>

RECURSIVE Utf8Encode(_)
Utf8Encode(s) ==
    IF s = <<>> THEN <<>> ELSE Utf8Char(Head(s)) \o Utf8Encode(Tail(s))

IsCont(b) == b >= 128 /\ b <= 191

RECURSIVE Utf8DecodeFrom(_, _, _)
Utf8DecodeFrom(b, i, acc) ==
    IF i > Len(b) THEN [ok |-> TRUE, str |-> acc]
    ELSE IF b[i] < 128 THEN Utf8DecodeFrom(b, i + 1, Append(acc, b[i]))
    ELSE IF b[i] >= 194 /\ b[i] <= 223 /\ i + 1 <= Len(b) /\ IsCont(b[i + 1])
        THEN Utf8DecodeFrom(b, i + 2, Append(acc, (b[i] - 192) * 64 + (b[i + 1] - 128)))
    ELSE IF b[i] >= 224 /\ b[i] <= 239 /\ i + 2 <= Len(b) /\ IsCont(b[i + 1]) /\ IsCont(b[i + 2])
            /\ (b[i] - 224) * 4096 + (b[i + 1] - 128) * 64 >= 2048
        THEN Utf8DecodeFrom(b, i + 3,
                 Append(acc, (b[i] - 224) * 4096 + (b[i + 1] - 128) * 64 + (b[i + 2] - 128)))
    ELSE [ok |-> FALSE, str |-> <<>>]

Utf8Decode(b) == Utf8DecodeFrom(b, 1, <<>>)

(***************************************************************************)
(* base64.urlsafe_b64encode / urlsafe_b64decode.  A character of base64    *)
(* text is its index in the URL-safe alphabet (0..63), or one of the       *)
(* symbols below.                                                          *)
(***************************************************************************)
PadSym == 64        \* '='
JunkSym == 65       \* an ASCII character outside the alphabet, such as '!'
NonAsciiSym == 66   \* a character outside ASCII
PlusSym == 67       \* '+', which the URL-safe decoder reads like '-'
SlashSym == 68      \* '/', which the URL-safe decoder reads like '_'

B64NoPad(b) ==
    IF Len(b) = 1 THEN <<b[1] \div 4, (b[1] % 4) * 16>>
    ELSE <<b[1] \div 4, (b[1] % 4) * 16 + (b[2] \div 16), (b[2] % 16) * 4>>

B64Tail(b) ==
    IF Len(b) = 1 THEN <<b[1] \div 4, (b[1] % 4) * 16, PadSym, PadSym>>
    ELSE <<b[1] \div 4, (b[1] % 4) * 16 + (b[2] \div 16), (b[2] % 16) * 4, PadSym>>

RECURSIVE B64Encode(_)
B64Encode(b) ==
    IF Len(b) = 0 THEN <<>>
    ELSE IF Len(b) < 3 THEN B64Tail(b)
    ELSE <<b[1] \div 4,
           (b[1] % 4) * 16 + (b[2] \div 16),
           (b[2] % 16) * 4 + (b[3] \div 64),
           b[3] % 64>> \o B64Encode(SubSeq(b, 4, Len(b)))

\* table_a2b_base64 after the URL-safe translation: the value of a character,
\* 64 or more for a character that is not a base64 digit
SextetOf(c) ==
    IF c < 64 THEN c
    ELSE IF c = PlusSym THEN 62
    ELSE IF c = SlashSym THEN 63
    ELSE 64

\* binascii.a2b_base64, not strict: characters outside the alphabet are
\* skipped, a completed padding ends the input, an incomplete quad is an error
RECURSIVE A2bBase64(_, _, _, _, _, _)
A2bBase64(s, i, quad, left, pads, acc) ==
    IF i > Len(s) THEN
        IF quad = 0 THEN [ok |-> TRUE, bytes |-> acc] ELSE [ok |-> FALSE, bytes |-> <<>>]
    ELSE IF s[i] = PadSym THEN
        IF quad >= 2 /\ quad + pads + 1 >= 4 THEN [ok |-> TRUE, bytes |-> acc]
        ELSE A2bBase64(s, i + 1, quad, left, IF quad >= 2 THEN pads + 1 ELSE pads, acc)
    ELSE IF SextetOf(s[i]) >= 64 THEN A2bBase64(s, i + 1, quad, left, pads, acc)
    ELSE LET c == SextetOf(s[i]) IN
        CASE quad = 0 -> A2bBase64(s, i + 1, 1, c, 0, acc)
          [] quad = 1 -> A2bBase64(s, i + 1, 2, c % 16, 0, Append(acc, left * 4 + (c \div 16)))
          [] quad = 2 -> A2bBase64(s, i + 1, 3, c % 4, 0, Append(acc, left * 16 + (c \div 4)))
          [] OTHER    -> A2bBase64(s, i + 1, 0, 0, 0, Append(acc, left * 64 + c))

\* base64.urlsafe_b64decode of a str: err is "" or the exception raised
B64Decode(s) ==
    IF \E i \in 1..Len(s) : s[i] = NonAsciiSym
    THEN [err |-> "ValueError", bytes |-> <<>>]
    ELSE LET r == A2bBase64(s, 1, 0, 0, 0, <<>>)
         IN  IF r.ok THEN [err |-> "", bytes |-> r.bytes]
             ELSE [err |-> "binascii.Error", bytes |-> <<>>]

(***************************************************************************)
(* _derive_fernet_key: PBKDF2-HMAC-SHA256 of the password.  HMAC brings    *)
(* its key to one block of the hash: a key longer than the block is hashed *)
(* first, a shorter one is filled up with zero bytes.                      *)
(***************************************************************************)
Sha256BlockSize == 64
Pbkdf2Iterations == 600000
Pbkdf2Length == 32
SaltLen == 16

HmacKeyBlock(k) ==
    IF Len(k) > Sha256BlockSize
    THEN [hashed |-> TRUE, bytes |-> k]
    ELSE [hashed |-> FALSE, bytes |-> k \o Repeat(0, Sha256BlockSize - Len(k))]

Pbkdf2Hmac(password, salt, iterations, length) ==
    [prf |-> HmacKeyBlock(password), salt |-> salt, iterations |-> iterations, length |-> length]

DeriveFernetKeyNoPassword(password, salt) ==
    Pbkdf2Hmac(<<>>, salt, kdfIterations, Pbkdf2Length)

\* a key that does not depend on the salt
DeriveFernetKeyNoSalt(password, salt) ==
    Pbkdf2Hmac(Utf8Encode(password), <<>>, kdfIterations, Pbkdf2Length)

DeriveFernetKey(password, salt) ==
    Pbkdf2Hmac(Utf8Encode(password), salt, kdfIterations, Pbkdf2Length)

(***************************************************************************)
(* cryptography.fernet.Fernet.  A token is                                 *)
(*   base64(version || timestamp || IV || AES-CBC(key, IV, data) || HMAC). *)
(* text tells how the characters of the token read as base64:              *)
(*   "b64"    the canonical text of the bytes                              *)
(*   "junk"   the same with characters outside the alphabet in between,    *)
(*            which the decoder skips                                      *)
(*   "notb64" text the decoder refuses (an incomplete quad)                *)
(*   "short"  text of fewer than 9 bytes                                   *)
(***************************************************************************)
FernetVersion == 128

AesCbc(key, iv, plaintext) == [key |-> key, iv |-> iv, pt |-> plaintext, flip |-> 0]

Hmac(key, ver, ts, iv, ct) == [key |-> key, ver |-> ver, ts |-> ts, iv |-> iv, ct |-> ct, flip |-> 0]

FernetEncrypt(key, plaintext, iv, ts) ==
    LET ct == AesCbc(key, iv, plaintext)
    IN  [text |-> "b64", ver |-> FernetVersion, ts |-> ts, iv |-> iv, ct |-> ct,
         mac |-> Hmac(key, FernetVersion, ts, iv, ct)]

\* a decryption that does not verify the tag
FernetDecryptNoTag(key, token) ==
    IF token.text \in {"notb64", "short"} THEN [err |-> "InvalidToken", bytes |-> <<>>]
    ELSE IF token.ver # FernetVersion THEN [err |-> "InvalidToken", bytes |-> <<>>]
    ELSE IF token.ct.key # key \/ token.ct.flip # 0 THEN [err |-> "InvalidToken", bytes |-> <<>>]
    ELSE [err |-> "", bytes |-> token.ct.pt]

\* Fernet.decrypt without ttl: err is "" or the exception raised
FernetDecrypt(key, token) ==
    IF token.text \in {"notb64", "short"} THEN [err |-> "InvalidToken", bytes |-> <<>>]
    ELSE IF token.ver # FernetVersion THEN [err |-> "InvalidToken", bytes |-> <<>>]
    ELSE IF token.mac # Hmac(key, token.ver, token.ts, token.iv, token.ct)
        THEN [err |-> "InvalidToken", bytes |-> <<>>]
    ELSE IF token.ct.key # key \/ token.ct.flip # 0 THEN [err |-> "InvalidToken", bytes |-> <<>>]
    ELSE [err |-> "", bytes |-> token.ct.pt]

(***************************************************************************)
(* encrypt_wallet and decrypt_wallet.                                      *)
(***************************************************************************)
\* a payload that keeps the password next to the token
EncryptWalletKeepsPassword(state, password, salt, iv, ts) ==
    LET key == DeriveFernetKey(password, salt)
        token == FernetEncrypt(key, B64Encode(Utf8Encode(state)), iv, ts)
    IN  [data |-> token, salt |-> B64Encode(salt), password |-> password]

EncryptWallet(state, password, salt, iv, ts) ==
    LET key == DeriveFernetKey(password, salt)
        token == FernetEncrypt(key, B64Encode(Utf8Encode(state)), iv, ts)
    IN  [data |-> token, salt |-> B64Encode(salt)]

Raised(e) == [ok |-> FALSE, state |-> <<>>, err |-> e]

Returned(s) == [ok |-> TRUE, state |-> s, err |-> ""]

DecryptWallet(p, password) ==
    LET salt == B64Decode(p.salt) IN
    IF salt.err # "" THEN Raised(salt.err)
    ELSE LET key == DeriveFernetKey(password, salt.bytes)
             decrypted == FernetDecrypt(key, p.data)
         IN  IF decrypted.err # "" THEN Raised(decrypted.err)
             ELSE LET inner == B64Decode(decrypted.bytes) IN
                  IF inner.err # "" THEN Raised(inner.err)
                  ELSE LET serialized == Utf8Decode(inner.bytes) IN
                       IF ~serialized.ok THEN Raised("UnicodeDecodeError")
                       ELSE Returned(serialized.str)

(***************************************************************************)
(* Inputs.                                                                 *)
(***************************************************************************)
StateChars == {97, 233}     \* 'a', and a character of two UTF-8 bytes
PwChars == {97, 0}          \* 'a', and NUL
States == SeqsUpTo(StateChars, MaxStateLen)
Passwords == SeqsUpTo(PwChars, MaxPwLen)
Salts == {[i \in 1..SaltLen |-> (k * 85 + (i - 1) * k) % 256] : k \in 0..MaxSalt}
Ivs == 0..MaxIv
NoOutcome == [ok |-> FALSE, state |-> <<>>, err |-> "not called"]

(***************************************************************************)
(* The store: a blob is written by encrypt_wallet, may be modified where   *)
(* it is kept, and is read back by decrypt_wallet.                         *)
(***************************************************************************)
InitStore ==
    /\ payload = <<>>
    /\ stored = <<>>
    /\ earlier = <<>>
    /\ kdfIterations = Pbkdf2Iterations
    /\ tampered = "none"
    /\ decPw = <<>>
    /\ out = NoOutcome

Encrypt ==
    \E state \in States, password \in Passwords, salt \in Salts, iv \in Ivs :
        /\ payload = <<>>
        /\ \E p \in {EncryptWallet(state, password, salt, iv, 0)} :
              /\ payload' = <<p>>
              /\ stored' = <<[state |-> state, password |-> password,
                              iterations |-> kdfIterations, payload |-> p]>>
        /\ tampered' = "none"
        /\ decPw' = <<>>
        /\ out' = NoOutcome
        /\ UNCHANGED <<earlier, kdfIterations>>
        /\ UNCHANGED <<mnemVars, walletVars, cliVars, txVars>>

\* encrypt_wallet called once more with the same state and password.  What
\* os.urandom returns is new: it is not the salt of the call before.  The IV
\* that Fernet draws is any.
Reencrypt ==
    \E salt \in Salts, iv \in Ivs :
        /\ payload # <<>>
        /\ earlier = <<>>
        /\ tampered = "none"
        /\ out = NoOutcome
        /\ B64Decode(stored[1].payload.salt).bytes # salt
        /\ \E p \in {EncryptWallet(stored[1].state, stored[1].password, salt, iv, 0)} :
              /\ payload' = <<p>>
              /\ stored' = <<[stored[1] EXCEPT !.iterations = kdfIterations, !.payload = p]>>
        /\ earlier' = stored
        /\ UNCHANGED <<kdfIterations, tampered, decPw, out>>
        /\ UNCHANGED <<mnemVars, walletVars, cliVars, txVars>>

\* a revision of the module with another default iteration count is deployed
ChangeIterations ==
    \E n \in {2 * Pbkdf2Iterations, Pbkdf2Iterations \div 2} :
        /\ kdfIterations = Pbkdf2Iterations
        /\ out = NoOutcome
        /\ kdfIterations' = n
        /\ UNCHANGED <<payload, stored, earlier, tampered, decPw, out>>
        /\ UNCHANGED <<mnemVars, walletVars, cliVars, txVars>>

Decrypt ==
    \E password \in Passwords :
        /\ payload # <<>>
        /\ out = NoOutcome
        /\ decPw' = password
        /\ out' = DecryptWallet(payload[1], password)
        /\ UNCHANGED <<payload, stored, earlier, kdfIterations, tampered>>
        /\ UNCHANGED <<mnemVars, walletVars, cliVars, txVars>>

\* the positions of the salt text that are modified: its first character, the
\* last digit (which carries four unused bits), and the two padding characters
SaltPositions == {1, 22, 23, 24}
SaltSyms == {0, 1, PadSym, JunkSym, NonAsciiSym, PlusSym}

TamperSalt ==
    /\ payload # <<>>
    /\ tampered = "none"
    /\ out = NoOutcome
    /\ Len(stored[1].state) <= MaxTamperLen
    /\ Len(stored[1].password) <= MaxTamperLen
    /\ \E t \in    {[payload[1].salt EXCEPT ![i] = c] : i \in SaltPositions, c \in SaltSyms}
              \cup {Append(payload[1].salt, JunkSym),
                    SubSeq(payload[1].salt, 1, Len(payload[1].salt) - 1),
                    <<>>} :
          /\ t # payload[1].salt
          /\ payload' = <<[payload[1] EXCEPT !.salt = t]>>
    /\ tampered' = "salt"
    /\ decPw' = <<>>
    /\ out' = NoOutcome
    /\ UNCHANGED <<stored, earlier, kdfIterations>>
    /\ UNCHANGED <<mnemVars, walletVars, cliVars, txVars>>

TamperData ==
    /\ payload # <<>>
    /\ tampered = "none"
    /\ out = NoOutcome
    /\ Len(stored[1].state) <= MaxTamperLen
    /\ Len(stored[1].password) <= MaxTamperLen
    /\ \E t \in {[payload[1].data EXCEPT !.text = "junk"],
                 [payload[1].data EXCEPT !.text = "notb64"],
                 [payload[1].data EXCEPT !.text = "short"],
                 [payload[1].data EXCEPT !.ver = 129],
                 [payload[1].data EXCEPT !.ts = 1],
                 [payload[1].data EXCEPT !.iv = MaxIv + 1],
                 [payload[1].data EXCEPT !.ct.flip = 1],
                 [payload[1].data EXCEPT !.mac.flip = 1]} :
          payload' = <<[payload[1] EXCEPT !.data = t]>>
    /\ tampered' = "data"
    /\ decPw' = <<>>
    /\ out' = NoOutcome
    /\ UNCHANGED <<stored, earlier, kdfIterations>>
    /\ UNCHANGED <<mnemVars, walletVars, cliVars, txVars>>

(***************************************************************************)
(* mnemonic.Mnemonic("english"): BIP39.  A word is its index in the word   *)
(* list (wordlist[i], wordlist.index(w)); a phrase is the list of words    *)
(* that normalize_string(phrase).split(" ") gives.  SHA-256 is a fixed     *)
(* function of the data, of which only the first byte is used (a checksum  *)
(* has at most 8 bits); which function it is does not matter here.         *)
(***************************************************************************)
WordBits == 11
WordListSize == 2048
UnknownWord == 0 - 1    \* a word that is not in the word list
EmptyWord == 0 - 2      \* the empty word: what "".split(" ") holds
Strengths == {128, 160, 192, 224, 256}
WordCounts == {12, 15, 18, 21, 24}

RECURSIVE Sha256Mix(_, _, _, _)
Sha256Mix(data, n, i, acc) ==
    IF i > n THEN acc
    ELSE Sha256Mix(data, n, i + 1, (acc * 31 + data[i] * 7 + i) % 256)

\* the first byte of hashlib.sha256(data).digest()
Sha256Head(data) == Sha256Mix(data, Len(data), 1, (55 + 3 * Len(data)) % 256)

\* bit j of a byte, the most significant being bit 0
ByteBit(byte, j) == (byte \div (2 ^ (7 - j))) % 2

\* the number that the n bits of b from position lo on spell, big-endian
RECURSIVE FromBits(_, _, _)
FromBits(b, lo, n) ==
    IF n = 0 THEN 0 ELSE 2 * FromBits(b, lo, n - 1) + b[lo + n - 1]

ChecksumBits(data, cs) ==
    LET head == Sha256Head(data) IN [j \in 1..cs |-> ByteBit(head, j - 1)]

\* the words of the entropy with a checksum of zero bits
ToMnemonicZeroChecksum(data) ==
    LET ent == 8 * Len(data)
        cs == ent \div 32
        b == [j \in 1..ent |-> ByteBit(data[((j - 1) \div 8) + 1], (j - 1) % 8)]
                 \o [j \in 1..cs |-> 0]
    IN  [i \in 1..(Len(b) \div WordBits) |-> FromBits(b, WordBits * (i - 1) + 1, WordBits)]

\* Mnemonic.to_mnemonic: entropy bits, then the first len/4 bits of the hash,
\* cut into words of 11 bits
ToMnemonic(data) ==
    LET ent == 8 * Len(data)
        cs == ent \div 32
        b == [j \in 1..ent |-> ByteBit(data[((j - 1) \div 8) + 1], (j - 1) % 8)]
                 \o ChecksumBits(data, cs)
    IN  [i \in 1..(Len(b) \div WordBits) |-> FromBits(b, WordBits * (i - 1) + 1, WordBits)]

\* Mnemonic.generate: err is "" or the exception raised
MnemonicGenerate(s, data) ==
    IF s \notin Strengths THEN [err |-> "ValueError", words |-> <<>>]
    ELSE [err |-> "", words |-> ToMnemonic(data)]

\* str.split(" ") of the normalised phrase: the empty string is one empty word
Split(p) == IF p = <<>> THEN <<EmptyWord>> ELSE p

InWordList(w) == w >= 0 /\ w < WordListSize

ChecksumIgnored(list) == "True"

\* the tail of Mnemonic.check, on a list of the right length of known words
ChecksumMatches(list) ==
    LET l == WordBits * Len(list)
        b == [j \in 1..l |-> (list[((j - 1) \div WordBits) + 1]
                                  \div (2 ^ (WordBits - 1 - ((j - 1) % WordBits)))) % 2]
        cs == l \div 33
        nd == [i \in 1..((cs * 32) \div 8) |-> FromBits(b, 8 * (i - 1) + 1, 8)]
        h == SubSeq(b, l - cs + 1, l)
        nh == ChecksumBits(nd, cs)
    IN  IF h = nh THEN "True" ELSE "False"

CheckUncaught(p) ==
    LET list == Split(p) IN
    IF Len(list) \notin WordCounts THEN "False"
    ELSE IF \E i \in 1..Len(list) : ~InWordList(list[i]) THEN "ValueError"
    ELSE ChecksumMatches(list)

\* Mnemonic.check: "True", "False", or the exception raised
Check(p) ==
    LET list == Split(p) IN
    IF Len(list) \notin WordCounts THEN "False"
    ELSE IF \E i \in 1..Len(list) : ~InWordList(list[i]) THEN "False"
    ELSE ChecksumMatches(list)

\* PawWallet.generate_mnemonic, create_wallet.generate_mnemonic
GenerateMnemonic(s, data) == MnemonicGenerate(s, data)

\* PawWallet.validate_mnemonic
ValidateMnemonic(p) == Check(p)

(***************************************************************************)
(* Generating, perturbing and validating phrases.                          *)
(***************************************************************************)
Entropies(n) == {[i \in 1..n |-> (k * 83 + i * k * 7) % 256] : k \in 0..MaxEntropy}
StrengthArgs == Strengths \cup {64}

InitMnem ==
    /\ strength = 0
    /\ base = <<>>
    /\ phrase = <<>>
    /\ origin = "none"
    /\ valid = "not called"

Generate ==
    \E s \in StrengthArgs :
        \E data \in Entropies(s \div 8) :
            LET r == GenerateMnemonic(s, data) IN
            /\ origin = "none"
            /\ strength' = s
            /\ base' = r.words
            /\ phrase' = r.words
            /\ origin' = IF r.err = "" THEN "generated" ELSE r.err
            /\ valid' = "not called"
            /\ UNCHANGED <<storeVars, walletVars, cliVars, txVars>>

LastWord(p) == p[Len(p)]

\* the number of checksum bits that the last word of p carries
CsBits(p) == Len(p) \div 3

\* a phrase that is not a mnemonic, made from a generated one
Malform ==
    /\ origin = "generated"
    /\ valid = "not called"
    /\ \E kind \in {"count-", "count+", "empty", "unknown", "checksum"} :
          /\ origin' = kind
          /\ phrase' =
                CASE kind = "count-" -> SubSeq(base, 1, Len(base) - 1)
                  [] kind = "count+" -> Append(base, 0)
                  [] kind = "empty" -> <<>>
                  [] kind = "unknown" -> [base EXCEPT ![1] = UnknownWord]
                  [] OTHER ->
                       [base EXCEPT ![Len(base)] =
                           IF LastWord(base) % 2 = 0 THEN LastWord(base) + 1
                           ELSE LastWord(base) - 1]
    /\ UNCHANGED <<strength, base, valid>>
    /\ UNCHANGED <<storeVars, walletVars, cliVars, txVars>>

\* the last word of a generated mnemonic replaced by another word of the list
ReplaceLastWord ==
    /\ origin = "generated"
    /\ valid = "not called"
    /\ \E w \in 0..(WordListSize - 1) :
          /\ w # LastWord(base)
          /\ phrase' = [base EXCEPT ![Len(base)] = w]
    /\ origin' = "lastword"
    /\ UNCHANGED <<strength, base, valid>>
    /\ UNCHANGED <<storeVars, walletVars, cliVars, txVars>>

Validate ==
    /\ origin \notin {"none", "ValueError"}
    /\ valid = "not called"
    /\ valid' = ValidateMnemonic(phrase)
    /\ UNCHANGED <<strength, base, phrase, origin>>
    /\ UNCHANGED <<storeVars, walletVars, cliVars, txVars>>

(***************************************************************************)
(* Keys, addresses and signatures.  The hash functions are fixed functions *)
(* on a reduced width: a 32-byte string is a number below ScalarSpace, the *)
(* 64 bytes of a seed or of an HMAC-SHA512 are two of them.  secp256k1 is  *)
(* reduced likewise to the subgroup of prime order GroupOrder of the       *)
(* integers modulo GroupModulus, with the x-coordinate of a point read as  *)
(* the group element itself: as on the curve, the order is a little less   *)
(* than the number of 32-byte strings, so some strings are no valid key.   *)
(***************************************************************************)
ScalarSpace == 16
GroupModulus == 53
GroupOrder == 13
GroupGenerator == 16
Hash160Len == 20
BitcoinSeed == 66       \* the HMAC key b"Bitcoin seed"

RECURSIVE SeedMix(_, _, _)
SeedMix(p, i, acc) ==
    IF i > Len(p) THEN acc
    ELSE SeedMix(p, i + 1, (acc * 31 + (p[i] % 256) + (p[i] \div 256) * 5 + 1) % 256)

\* Mnemonic.to_seed(mnemonic, passphrase): PBKDF2-HMAC-SHA512, 64 bytes
ToSeed(mnemonic, passphrase) ==
    LET h == SeedMix(mnemonic, 1, (109 + 7 * Len(passphrase)) % 256)
    IN  <<h \div ScalarSpace, h % ScalarSpace>>

\* hmac.new(key, msg, hashlib.sha512).digest(): 64 bytes
HmacSha512(key, msg) ==
    LET h == ((msg[1] * ScalarSpace + msg[2]) * 167 + 89 + key) % 256
    IN  <<h \div ScalarSpace, h % ScalarSpace>>

\* a derivation that walks the path: the key depends on hd_path
DerivePrivateKeyAlongPath(seed, hd_path) ==
    IF hd_path = "m/44'/118'/0'/0/0" THEN HmacSha512(BitcoinSeed, seed)[1]
    ELSE HmacSha512(BitcoinSeed, seed)[2]

\* PawWallet._derive_private_key: master_key[:32]
DerivePrivateKey(seed, hd_path) == HmacSha512(BitcoinSeed, seed)[1]

RECURSIVE PowMod(_, _, _)
PowMod(b, e, m) == IF e = 0 THEN 1 ELSE (b * PowMod(b, e - 1, m)) % m

InverseMod(k, n) == CHOOSE x \in 1..(n - 1) : (k * x) % n = 1

ValidScalar(k) == k >= 1 /\ k < GroupOrder

\* scalar multiplication without the check of the range of the scalar
VerifyingKeyUnchecked(private_key) ==
    [err |-> "", key |-> PowMod(GroupGenerator, private_key, GroupModulus)]

\* SigningKey.from_string(private_key, curve=SECP256k1).get_verifying_key()
\*     .to_string("compressed"): err is "" or the exception raised
VerifyingKey(private_key) ==
    IF ~ValidScalar(private_key) THEN [err |-> "MalformedPointError", key |-> 0]
    ELSE [err |-> "", key |-> PowMod(GroupGenerator, private_key, GroupModulus)]

\* PawWallet._get_public_key
GetPublicKey(private_key) == VerifyingKey(private_key)

\* hashlib.new("ripemd160", hashlib.sha256(public_key).digest()).digest()
Hash160(public_key) ==
    [i \in 1..Hash160Len |-> (public_key * 37 + i * 11 + public_key * i) % 256]

\* bech32.convertbits(data, frombits, tobits, pad): ok is FALSE for None
RECURSIVE ConvertBitsFrom(_, _, _, _, _, _, _, _, _)
ConvertBitsFrom(data, n, i, acc, bits, ret, frombits, tobits, pad) ==
    IF bits >= tobits THEN
        ConvertBitsFrom(data, n, i, acc, bits - tobits,
                        Append(ret, (acc \div (2 ^ (bits - tobits))) % (2 ^ tobits)),
                        frombits, tobits, pad)
    ELSE IF i > n THEN
        IF pad THEN
            [ok |-> TRUE,
             data |-> IF bits > 0
                      THEN Append(ret, (acc * (2 ^ (tobits - bits))) % (2 ^ tobits))
                      ELSE ret]
        ELSE IF bits >= frombits \/ (acc * (2 ^ (tobits - bits))) % (2 ^ tobits) # 0
            THEN [ok |-> FALSE, data |-> <<>>]
        ELSE [ok |-> TRUE, data |-> ret]
    ELSE IF data[i] < 0 \/ data[i] >= 2 ^ frombits THEN [ok |-> FALSE, data |-> <<>>]
    ELSE ConvertBitsFrom(data, n, i + 1,
                         (acc * (2 ^ frombits) + data[i]) % (2 ^ (frombits + tobits - 1)),
                         bits + frombits, ret, frombits, tobits, pad)

ConvertBits(data, frombits, tobits) ==
    ConvertBitsFrom(data, Len(data), 1, 0, 0, <<>>, frombits, tobits, TRUE)

RECURSIVE SumSeq(_, _)
SumSeq(d, i) == IF i > Len(d) THEN 0 ELSE d[i] * i + SumSeq(d, i + 1)

HrpCode(hrp) == IF hrp = "paw" THEN 3 ELSE 6

\* bech32.bech32_encode(hrp, data): hrp, the separator "1", the data and a
\* checksum of six characters over hrp and data (a fixed function here)
Bech32Encode(hrp, data) ==
    LET sum == SumSeq(data, 1) IN
    [hrp |-> hrp, data |-> data,
     checksum |-> [i \in 1..6 |-> (sum * i + HrpCode(hrp) * 7 + i) % 32]]

NoAddress == [hrp |-> "", data |-> <<>>, checksum |-> <<>>]

\* an address under the default prefix, whatever the prefix of the wallet
GetAddressDefaultPrefix(prefix, public_key) ==
    LET five_bit_r == ConvertBits(Hash160(public_key), 8, 5) IN
    IF ~five_bit_r.ok THEN [err |-> "ValueError", address |-> NoAddress]
    ELSE [err |-> "", address |-> Bech32Encode("paw", five_bit_r.data)]

\* PawWallet._get_address: err is "" or the exception raised
GetAddress(prefix, public_key) ==
    LET five_bit_r == ConvertBits(Hash160(public_key), 8, 5) IN
    IF ~five_bit_r.ok THEN [err |-> "ValueError", address |-> NoAddress]
    ELSE [err |-> "", address |-> Bech32Encode(prefix, five_bit_r.data)]

\* PawWallet.__init__
NewWallet(prefix) ==
    [prefix |-> prefix, _private_key |-> <<>>, _public_key |-> <<>>,
     _address |-> <<>>, _mnemonic |-> <<>>]

\* PawWallet.from_mnemonic once the phrase is validated: the wallet after
\* the call, the exception raised ("" for none), and whether a seed was derived
DeriveInto(self, mnemonic, hd_path) ==
    LET s1 == [self EXCEPT !._mnemonic = <<mnemonic>>]
        seed == ToSeed(mnemonic, <<>>)
        private_key == DerivePrivateKey(seed, hd_path)
        s2 == [s1 EXCEPT !._private_key = <<private_key>>]
        pub == GetPublicKey(private_key)
    IN  IF pub.err # "" THEN [self |-> s2, err |-> pub.err, derived |-> TRUE]
        ELSE
          LET s3 == [s2 EXCEPT !._public_key = <<pub.key>>]
              addr == GetAddress(self.prefix, pub.key)
          IN  IF addr.err # "" THEN [self |-> s3, err |-> addr.err, derived |-> TRUE]
              ELSE [self |-> [s3 EXCEPT !._address = <<addr.address>>],
                    err |-> "", derived |-> TRUE]

\* from_mnemonic that stores the phrase before it validates it
FromMnemonicStoreFirst(self, mnemonic, hd_path) ==
    IF ValidateMnemonic(mnemonic) # "True"
    THEN [self |-> [self EXCEPT !._mnemonic = <<mnemonic>>], err |-> "ValueError",
          derived |-> FALSE]
    ELSE DeriveInto(self, mnemonic, hd_path)

\* PawWallet.from_mnemonic
FromMnemonicCall(self, mnemonic, hd_path) ==
    IF ValidateMnemonic(mnemonic) # "True"
    THEN [self |-> self, err |-> "ValueError", derived |-> FALSE]
    ELSE DeriveInto(self, mnemonic, hd_path)

\* hashlib.sha256(message).digest() as the number that is signed
Sha256Number(message) == Sha256Head(message) % ScalarSpace

\* sigencode_string_canonize: r || s with s in the lower half
\* the x coordinate of a point: a point and its inverse have the same one
XCoord(point) ==
    LET inverse == InverseMod(point, GroupModulus)
    IN  (IF point < inverse THEN point ELSE inverse) % GroupOrder

\* sigencode_string: r and s as they are
CanonizeNot(r, s) == <<r, s>>

Canonize(r, s) == <<r, IF 2 * s > GroupOrder THEN GroupOrder - s ELSE s>>

\* SigningKey.from_string(key).sign_digest(digest, sigencode=...) with the
\* nonce k that randrange(order) returned
SignDigest(private_key, number, k) ==
    IF ~ValidScalar(private_key) THEN [err |-> "MalformedPointError", sig |-> <<>>]
    ELSE
      LET r == XCoord(PowMod(GroupGenerator, k, GroupModulus))
          s == (InverseMod(k, GroupOrder) * ((number + private_key * r) % GroupOrder)) % GroupOrder
      IN  IF r = 0 \/ s = 0 THEN [err |-> "RSZeroError", sig |-> <<>>]
          ELSE [err |-> "", sig |-> Canonize(r, s)]

\* PawWallet.sign
SignCall(self, message, k) ==
    IF self._private_key = <<>> THEN [err |-> "RuntimeError", sig |-> <<>>]
    ELSE SignDigest(self._private_key[1], Sha256Number(message), k)

\* an address property that returns the field as it is, None included
AddressPropNoCheck(self) ==
    [err |-> "", ret |-> IF self._address = <<>> THEN <<NoAddress>> ELSE self._address]

\* PawWallet.address: err is "" or the exception raised
AddressProp(self) ==
    IF self._address = <<>> THEN [err |-> "RuntimeError", ret |-> <<>>]
    ELSE [err |-> "", ret |-> self._address]

\* PawWallet.public_key
PublicKeyProp(self) ==
    IF self._public_key = <<>> THEN [err |-> "RuntimeError", ret |-> <<>>]
    ELSE [err |-> "", ret |-> self._public_key]

\* PawWallet.export_mnemonic
ExportMnemonicCall(self) ==
    IF self._mnemonic = <<>> THEN [err |-> "RuntimeError", ret |-> <<>>]
    ELSE [err |-> "", ret |-> self._mnemonic]

\* PAWWallet._generate_address
ExampleGenerateAddress(public_key) ==
    LET converted == ConvertBits(Hash160(public_key), 8, 5) IN
    IF ~converted.ok THEN [err |-> "TypeError", address |-> NoAddress]
    ELSE [err |-> "", address |-> Bech32Encode("paw", converted.data)]

\* PAWWallet(mnemonic_phrase): __init__ and _derive_keys; the constructor
\* gives no object when it raises
ExampleWallet(mnemonic_phrase) ==
    LET seed == ToSeed(mnemonic_phrase, <<>>)
        private_key_bytes == seed[1]
        pub == VerifyingKey(private_key_bytes)
    IN  IF pub.err # "" THEN [err |-> pub.err, self |-> <<>>]
        ELSE LET addr == ExampleGenerateAddress(pub.key) IN
             IF addr.err # "" THEN [err |-> addr.err, self |-> <<>>]
             ELSE [err |-> "",
                   self |-> <<[mnemonic |-> mnemonic_phrase, private_key |-> private_key_bytes,
                               public_key |-> pub.key, address |-> addr.address]>>]

(***************************************************************************)
(* Calls on wallets.                                                       *)
(***************************************************************************)
WalletIds == {1, 2}
Prefixes == {"paw", "cosmos"}
HdPaths == {"m/44'/118'/0'/0/0", "m/44'/118'/0'/0/1"}
Messages == {<<m>> : m \in 0..MaxMessage}
\* randrange(order) draws from 1..order-1; the first MaxNonce of them here
Nonces == 1..MaxNonce

\* phrases of twelve words, and one of twenty-four
ValidMnemonics ==
    {ToMnemonic(data) : data \in Entropies(16)}
    \cup {ToMnemonic([i \in 1..32 |-> (83 + i * 7) % 256])}

\* a valid mnemonic of twelve words with another checksum, with an unknown word
WrongChecksum(m) ==
    [m EXCEPT ![Len(m)] = IF LastWord(m) % 2 = 0 THEN LastWord(m) + 1 ELSE LastWord(m) - 1]

InvalidMnemonics ==
    LET m == ToMnemonic([i \in 1..16 |-> 0])
    IN  {<<>>, WrongChecksum(m), [m EXCEPT ![1] = UnknownWord]}

MnemonicArgs == ValidMnemonics \cup InvalidMnemonics

NoCall ==
    [op |-> "none", w |-> 0, arg |-> <<>>, hd |-> "", err |-> "", derived |-> FALSE,
     ret |-> <<>>]

InitWallet ==
    /\ wallet = [w \in WalletIds |-> NewWallet("paw")]
    /\ example = <<>>
    /\ lastCall = NoCall
    /\ sigs = <<>>
    /\ lastGood = [w \in WalletIds |-> <<>>]

\* the calls of sign that sigs keeps once wallet w is initialised anew
SigsOfOthers(w) ==
    LET Other(r) == r.w # w IN SelectSeq(sigs, Other)

\* PawWallet(prefix): a new instance takes the place of wallet w
Construct(w) ==
    \E prefix \in Prefixes :
        /\ wallet' = [wallet EXCEPT ![w] = NewWallet(prefix)]
        /\ lastCall' = [op |-> "PawWallet", w |-> w, arg |-> <<>>, hd |-> "",
                        err |-> "", derived |-> FALSE, ret |-> <<>>]
        /\ sigs' = SigsOfOthers(w)
        /\ lastGood' = [lastGood EXCEPT ![w] = <<>>]
        /\ UNCHANGED example
        /\ UNCHANGED <<storeVars, mnemVars, cliVars, txVars>>

\* from_mnemonic on a new wallet of each prefix, for each argument
FromMnemonicResults ==
    {[prefix |-> p, mnemonic |-> m, hd |-> h, r |-> FromMnemonicCall(NewWallet(p), m, h)] :
        p \in Prefixes, m \in MnemonicArgs, h \in HdPaths}

\* from_mnemonic on a wallet in any state: the method reads self.prefix and
\* no other field, so it assigns to self what it assigns to a new wallet of
\* that prefix and leaves the other fields as they are
FromMnemonicOn(self, mnemonic, hd_path) ==
    LET e == CHOOSE e \in FromMnemonicResults :
                 e.prefix = self.prefix /\ e.mnemonic = mnemonic /\ e.hd = hd_path
        Assigned(old, new) == IF new = <<>> THEN old ELSE new
    IN  [err |-> e.r.err, derived |-> e.r.derived,
         self |-> [prefix |-> self.prefix,
                   _mnemonic |-> Assigned(self._mnemonic, e.r.self._mnemonic),
                   _private_key |-> Assigned(self._private_key, e.r.self._private_key),
                   _public_key |-> Assigned(self._public_key, e.r.self._public_key),
                   _address |-> Assigned(self._address, e.r.self._address)]]

FromMnemonic(w) ==
    \E mnemonic \in MnemonicArgs, hd_path \in HdPaths :
        \E r \in {FromMnemonicOn(wallet[w], mnemonic, hd_path)} :
        /\ wallet' = [wallet EXCEPT ![w] = r.self]
        /\ lastCall' = [op |-> "from_mnemonic", w |-> w, arg |-> mnemonic, hd |-> hd_path,
                        err |-> r.err, derived |-> r.derived, ret |-> <<>>]
        /\ sigs' = IF r.self = wallet[w] THEN sigs ELSE SigsOfOthers(w)
        /\ lastGood' = IF r.err # "" THEN lastGood
                       ELSE [lastGood EXCEPT ![w] = <<mnemonic>>]
        /\ UNCHANGED example
        /\ UNCHANGED <<storeVars, mnemVars, cliVars, txVars>>

Sign(w) ==
    \E message \in Messages, k \in Nonces :
        \E r \in {SignCall(wallet[w], message, k)} :
        /\ r.err # "RSZeroError"
        /\ sigs' = Append(IF Len(sigs) = 2 THEN Tail(sigs) ELSE sigs,
                          [w |-> w, key |-> wallet[w]._private_key, message |-> message,
                           err |-> r.err, sig |-> r.sig])
        /\ lastCall' = [op |-> "sign", w |-> w, arg |-> message, hd |-> "",
                        err |-> r.err, derived |-> FALSE,
                        ret |-> IF r.err = "" THEN <<r.sig>> ELSE <<>>]
        /\ UNCHANGED <<wallet, example, lastGood>>
        /\ UNCHANGED <<storeVars, mnemVars, cliVars, txVars>>

\* the private keys that 32 bytes can hold
Scalars == 0..(ScalarSpace - 1)

\* PawWallet._get_public_key(private_key) called on wallet w
CallGetPublicKey(w) ==
    \E private_key \in Scalars :
        \E r \in {GetPublicKey(private_key)} :
        /\ lastCall' = [op |-> "_get_public_key", w |-> w, arg |-> <<private_key>>, hd |-> "",
                        err |-> r.err, derived |-> FALSE,
                        ret |-> IF r.err = "" THEN <<r.key>> ELSE <<>>]
        /\ UNCHANGED <<wallet, example, sigs, lastGood>>
        /\ UNCHANGED <<storeVars, mnemVars, cliVars, txVars>>

\* reading wallet.address
ReadAddress(w) ==
    \E r \in {AddressProp(wallet[w])} :
        /\ lastCall' = [op |-> "address", w |-> w, arg |-> <<>>, hd |-> "",
                        err |-> r.err, derived |-> FALSE, ret |-> r.ret]
        /\ UNCHANGED <<wallet, example, sigs, lastGood>>
        /\ UNCHANGED <<storeVars, mnemVars, cliVars, txVars>>

\* reading wallet.public_key
ReadPublicKey(w) ==
    \E r \in {PublicKeyProp(wallet[w])} :
        /\ lastCall' = [op |-> "public_key", w |-> w, arg |-> <<>>, hd |-> "",
                        err |-> r.err, derived |-> FALSE, ret |-> r.ret]
        /\ UNCHANGED <<wallet, example, sigs, lastGood>>
        /\ UNCHANGED <<storeVars, mnemVars, cliVars, txVars>>

\* an export_mnemonic that forgets the phrase once it has returned it
ExportMnemonicWipes(w) ==
    \E r \in {ExportMnemonicCall(wallet[w])} :
        /\ lastCall' = [op |-> "export_mnemonic", w |-> w, arg |-> <<>>, hd |-> "",
                        err |-> r.err, derived |-> FALSE, ret |-> r.ret]
        /\ wallet' = [wallet EXCEPT ![w]._mnemonic = <<>>]
        /\ UNCHANGED <<example, sigs, lastGood>>
        /\ UNCHANGED <<storeVars, mnemVars, cliVars, txVars>>

\* calling wallet.export_mnemonic()
ExportMnemonic(w) ==
    \E r \in {ExportMnemonicCall(wallet[w])} :
        /\ lastCall' = [op |-> "export_mnemonic", w |-> w, arg |-> <<>>, hd |-> "",
                        err |-> r.err, derived |-> FALSE, ret |-> r.ret]
        /\ UNCHANGED <<wallet, example, sigs, lastGood>>
        /\ UNCHANGED <<storeVars, mnemVars, cliVars, txVars>>

NewExample ==
    \E mnemonic \in ValidMnemonics :
        \E r \in {ExampleWallet(mnemonic)} :
        /\ example' = r.self
        /\ lastCall' = [op |-> "PAWWallet", w |-> 0, arg |-> mnemonic, hd |-> "",
                        err |-> r.err, derived |-> TRUE, ret |-> <<>>]
        /\ UNCHANGED <<wallet, sigs, lastGood>>
        /\ UNCHANGED <<storeVars, mnemVars, cliVars, txVars>>

(***************************************************************************)
(* create_wallet.py: create_wallet, import_wallet and main.  What a call   *)
(* prints is a list of items, each the kind of thing printed and its       *)
(* value; the lines of fixed text are items of kind "text".  str(e) of an  *)
(* exception of the libraries is a fixed text that names no key material.  *)
(***************************************************************************)
Item(kind, value) == [kind |-> kind, value |-> value]

\* str(e)
ErrorText(err) ==
    IF err = "MalformedPointError" THEN "Invalid value for secexp, expected integer between 1 and n"
    ELSE IF err = "TypeError" THEN "can only concatenate list (not \"NoneType\") to list"
    ELSE err

Failed(printed, text) ==
    [raised |-> "",
     result |-> <<[success |-> FALSE, error |-> text]>>,
     printed |-> printed]

\* a create_wallet that shows the private key among the wallet details
CreateWalletPrintsKey(mnemonic, generated) ==
    LET first == <<Item("text", "Creating New PAW Wallet...")>>
        provided == mnemonic # <<>>
        chosen == IF provided THEN mnemonic ELSE generated
        checked == IF provided THEN Check(mnemonic) ELSE "True"
    IN  IF checked # "True"
        THEN Failed(Append(first, Item("error", "Error creating wallet: Invalid mnemonic phrase")),
                    "Invalid mnemonic phrase")
        ELSE
          LET w == ExampleWallet(chosen) IN
          IF w.err # ""
          THEN Failed(first \o <<Item("text", IF provided THEN "Using provided mnemonic phrase"
                                              ELSE "Generated new mnemonic phrase"),
                                 Item("error", ErrorText(w.err))>>, ErrorText(w.err))
          ELSE [raised |-> "",
                result |-> <<[success |-> TRUE, mnemonic |-> chosen,
                              address |-> w.self[1].address,
                              public_key |-> w.self[1].public_key]>>,
                printed |-> first \o <<Item("text", IF provided THEN "Using provided mnemonic phrase"
                                              ELSE "Generated new mnemonic phrase"),
                                       Item("mnemonic", chosen),
                                       Item("address", w.self[1].address),
                                       Item("private_key", w.self[1].private_key),
                                       Item("public_key_hex", w.self[1].public_key)>>]

\* create_wallet(mnemonic): a mnemonic of None or "" is <<>>; generated is what
\* generate_mnemonic() returns when it is called
CreateWallet(mnemonic, generated) ==
    LET first == <<Item("text", "Creating New PAW Wallet...")>>
        provided == mnemonic # <<>>
        chosen == IF provided THEN mnemonic ELSE generated
        checked == IF provided THEN Check(mnemonic) ELSE "True"
    IN  IF checked = "False"
        THEN Failed(Append(first, Item("error", "Error creating wallet: Invalid mnemonic phrase")),
                    "Invalid mnemonic phrase")
        ELSE IF checked # "True"
        THEN Failed(Append(first, Item("error", ErrorText(checked))), ErrorText(checked))
        ELSE
          LET w == ExampleWallet(chosen) IN
          IF w.err # ""
          THEN Failed(first \o <<Item("text", IF provided THEN "Using provided mnemonic phrase"
                                              ELSE "Generated new mnemonic phrase"),
                                 Item("error", ErrorText(w.err))>>, ErrorText(w.err))
          ELSE [raised |-> "",
                result |-> <<[success |-> TRUE, mnemonic |-> chosen,
                              address |-> w.self[1].address,
                              public_key |-> w.self[1].public_key]>>,
                printed |-> first \o <<Item("text", IF provided THEN "Using provided mnemonic phrase"
                                              ELSE "Generated new mnemonic phrase"),
                                       Item("text", "WALLET CREATED SUCCESSFULLY"),
                                       Item("mnemonic", chosen),
                                       Item("address", w.self[1].address),
                                       Item("public_key_hex", w.self[1].public_key),
                                       Item("text", "Next Steps")>>]

\* an import_wallet without its except clause
ImportWalletUncaught(mnemonic) ==
    LET first == <<Item("text", "Importing Existing Wallet...")>>
        checked == Check(mnemonic)
    IN  IF checked # "True"
        THEN [raised |-> "ValueError", result |-> <<>>, printed |-> first]
        ELSE
          LET w == ExampleWallet(mnemonic) IN
          IF w.err # ""
          THEN [raised |-> w.err, result |-> <<>>, printed |-> first]
          ELSE [raised |-> "",
                result |-> <<[success |-> TRUE, address |-> w.self[1].address,
                              public_key |-> w.self[1].public_key]>>,
                printed |-> first \o <<Item("text", "Wallet imported successfully"),
                                       Item("address", w.self[1].address)>>]

\* import_wallet(mnemonic)
ImportWallet(mnemonic) ==
    LET first == <<Item("text", "Importing Existing Wallet...")>>
        checked == Check(mnemonic)
    IN  IF checked = "False"
        THEN Failed(Append(first, Item("error", "Error importing wallet: Invalid mnemonic phrase. Please check and try again.")),
                    "Invalid mnemonic phrase. Please check and try again.")
        ELSE IF checked # "True"
        THEN Failed(Append(first, Item("error", ErrorText(checked))), ErrorText(checked))
        ELSE
          LET w == ExampleWallet(mnemonic) IN
          IF w.err # ""
          THEN Failed(Append(first, Item("error", ErrorText(w.err))), ErrorText(w.err))
          ELSE [raised |-> "",
                result |-> <<[success |-> TRUE, address |-> w.self[1].address,
                              public_key |-> w.self[1].public_key]>>,
                printed |-> first \o <<Item("text", "Wallet imported successfully"),
                                       Item("address", w.self[1].address)>>]

\* main with sys.argv[1:] = args: cmd is the first argument ("" for none) and
\* rest is <<>> or holds the other arguments joined by blanks.  exit is the
\* status given to sys.exit; an exception that leaves main ends the process
\* with status 1.
Main(args, generated) ==
    IF args.cmd = "import" /\ args.rest = <<>>
    THEN [raised |-> "", result |-> <<>>, exit |-> <<1>>,
          printed |-> <<Item("text", "Usage: python create_wallet.py import <mnemonic>")>>]
    ELSE
      LET r == IF args.cmd = "import" THEN ImportWallet(args.rest[1])
               ELSE CreateWallet(<<>>, generated)
      IN  [raised |-> r.raised, result |-> r.result, printed |-> r.printed,
           exit |-> IF r.raised # "" THEN <<1>>
                    ELSE IF r.result[1].success THEN <<0>> ELSE <<1>>]

\* generate_mnemonic() with the default strength of 256 bits
GeneratedMnemonics == {ToMnemonic(data) : data \in Entropies(32)}

MainArgs ==
    {[cmd |-> "", rest |-> <<>>], [cmd |-> "import", rest |-> <<>>]}
    \cup {[cmd |-> "import", rest |-> <<m>>] : m \in MnemonicArgs}

InitCli == cli = <<>>

CallCreateWallet ==
    \E mnemonic \in MnemonicArgs, generated \in GeneratedMnemonics :
        \E r \in {CreateWallet(mnemonic, generated)} :
            /\ Len(cli) < MaxCliCalls
            /\ cli' = Append(cli, [op |-> "create_wallet", arg |-> mnemonic,
                                   raised |-> r.raised, result |-> r.result,
                                   printed |-> r.printed, exit |-> <<>>])
            /\ UNCHANGED <<storeVars, mnemVars, walletVars, txVars>>

CallImportWallet ==
    \E mnemonic \in MnemonicArgs :
        \E r \in {ImportWallet(mnemonic)} :
            /\ Len(cli) < MaxCliCalls
            /\ cli' = Append(cli, [op |-> "import_wallet", arg |-> mnemonic,
                                   raised |-> r.raised, result |-> r.result,
                                   printed |-> r.printed, exit |-> <<>>])
            /\ UNCHANGED <<storeVars, mnemVars, walletVars, txVars>>

RunMain ==
    \E args \in MainArgs, generated \in GeneratedMnemonics :
        \E r \in {Main(args, generated)} :
            /\ Len(cli) < MaxCliCalls
            /\ cli' = Append(cli, [op |-> "main", arg |-> args.rest,
                                   raised |-> r.raised, result |-> r.result,
                                   printed |-> r.printed, exit |-> r.exit])
            /\ UNCHANGED <<storeVars, mnemVars, walletVars, txVars>>

(***************************************************************************)
(* tx.py and client.py: TxBuilder.sign_and_broadcast on the wallet that    *)
(* was connected to the client.  The call is suspended where it awaits     *)
(* the client: at the GET of the account and at the POST of the            *)
(* transaction; _estimate_gas and _sign_tx await nothing and run with the  *)
(* step that calls them.  A value that was read from the wallet is a leaf  *)
(* that names the attribute it was read from.                              *)
(***************************************************************************)
Leaf(from, value) == [from |-> from, value |-> value]

\* ChainConfig defaults
ChainId == "paw-testnet-1"
ConfigGasPrice == "0.025upaw"
GasAdjustmentTenths == 15

\* GasOptions()
DefaultGasOptions == [gas_limit |-> <<>>, gas_price |-> <<>>, memo |-> ""]

\* gas_price.lstrip("0123456789.") and float(gas_price.rstrip(letters)), the
\* price in thousandths
ParseGasPrice(gas_price) ==
    IF gas_price = "0.025upaw" THEN [denom |-> "upaw", milli |-> 25]
    ELSE [denom |-> "upaw", milli |-> 50]

\* TxBuilder._build_tx_body
BuildTxBody(messages, memo) ==
    [messages |-> messages, memo |-> memo, timeout_height |-> "0"]

\* TxBuilder._estimate_gas
EstimateGas(tx_body) ==
    ((200000 + Len(tx_body.messages) * 100000) * GasAdjustmentTenths) \div 10

AuthInfoWithKey(key, gas_limit, gas_price) ==
    [signer_infos |-> <<[public_key |-> [type |-> "/cosmos.crypto.secp256k1.PubKey",
                                         key |-> key],
                         mode |-> "SIGN_MODE_DIRECT",
                         sequence |-> "0"]>>,
     fee |-> [denom |-> ParseGasPrice(gas_price).denom,
              amount |-> (gas_limit * ParseGasPrice(gas_price).milli) \div 1000,
              gas_limit |-> gas_limit]]

\* a _build_auth_info that puts the wallet's private key in the key field
BuildAuthInfoFromPrivateKey(self_wallet, gas_limit, gas_price) ==
    IF self_wallet._private_key = <<>> THEN [err |-> "RuntimeError", ret |-> <<>>]
    ELSE [err |-> "",
          ret |-> <<AuthInfoWithKey(Leaf("_private_key", B64Encode(self_wallet._private_key)),
                                    gas_limit, gas_price)>>]

\* TxBuilder._build_auth_info: err is "" or the exception raised
BuildAuthInfo(self_wallet, gas_limit, gas_price) ==
    LET public_key == PublicKeyProp(self_wallet)
    IN  IF public_key.err # "" THEN [err |-> public_key.err, ret |-> <<>>]
        ELSE [err |-> "",
              ret |-> <<AuthInfoWithKey(Leaf("public_key", B64Encode(public_key.ret)),
                                        gas_limit, gas_price)>>]

\* what client.get answered: raised, or the "account" of the JSON (<<>> when
\* the key is missing), whose fields may be missing too
AccountResponses ==
    {[raised |-> TRUE, account |-> <<>>],
     [raised |-> FALSE, account |-> <<>>],
     [raised |-> FALSE, account |-> <<[account_number |-> <<"7">>, sequence |-> <<"3">>]>>],
     [raised |-> FALSE, account |-> <<[account_number |-> <<"7">>, sequence |-> <<>>]>>]}

\* TxBuilder._get_account_info after the await
GetAccountInfo(response) ==
    IF response.raised \/ response.account = <<>>
    THEN [account_number |-> <<"0">>, sequence |-> <<"0">>]
    ELSE response.account[1]

\* dict.get(key, "0")
GetOrZero(field) == IF field = <<>> THEN "0" ELSE field[1]

DigitByte(text) == IF text = "0" THEN 48 ELSE IF text = "3" THEN 51 ELSE 55

\* json.dumps(sign_doc).encode(): the bytes of the parts of the document
\* that differ between documents
JsonDumpsEncode(sign_doc) ==
    <<Len(sign_doc.body_bytes.messages),
      IF sign_doc.body_bytes.memo = "" THEN 0 ELSE 109,
      DigitByte(sign_doc.auth_info_bytes.signer_infos[1].sequence),
      DigitByte(sign_doc.account_number),
      sign_doc.auth_info_bytes.fee.amount % 256,
      (sign_doc.auth_info_bytes.fee.gas_limit \div 1000) % 256>>
    \o sign_doc.auth_info_bytes.signer_infos[1].public_key.key.value

\* a _sign_tx that leaves the sequence that _build_auth_info wrote
SignTxKeepsSequence(self_wallet, tx_body, auth_info, account_info, k) ==
    LET sign_doc == [body_bytes |-> tx_body, auth_info_bytes |-> auth_info,
                     chain_id |-> ChainId,
                     account_number |-> GetOrZero(account_info.account_number)]
        signature == SignCall(self_wallet, JsonDumpsEncode(sign_doc), k)
    IN  IF signature.err # ""
        THEN [err |-> signature.err, sign_doc |-> <<sign_doc>>, ret |-> <<>>]
        ELSE [err |-> "", sign_doc |-> <<sign_doc>>,
              ret |-> <<[body |-> tx_body, auth_info |-> auth_info,
                         signatures |-> <<Leaf("sign", B64Encode(signature.sig))>>]>>]

\* TxBuilder._sign_tx with the nonce k of sign_digest
SignTx(self_wallet, tx_body, auth_info, account_info, k) ==
    LET auth == [auth_info EXCEPT !.signer_infos[1].sequence = GetOrZero(account_info.sequence)]
        sign_doc == [body_bytes |-> tx_body, auth_info_bytes |-> auth,
                     chain_id |-> ChainId,
                     account_number |-> GetOrZero(account_info.account_number)]
        signature == SignCall(self_wallet, JsonDumpsEncode(sign_doc), k)
    IN  IF signature.err # ""
        THEN [err |-> signature.err, sign_doc |-> <<sign_doc>>, ret |-> <<>>]
        ELSE [err |-> "", sign_doc |-> <<sign_doc>>,
              ret |-> <<[body |-> tx_body, auth_info |-> auth,
                         signatures |-> <<Leaf("sign", B64Encode(signature.sig))>>]>>]

\* the attributes of the wallet from which the leaves of a signed
\* transaction were read
LeavesOfSignedTx(signed_tx) ==
    {signed_tx.auth_info.signer_infos[1].public_key.key.from}
    \cup {signed_tx.signatures[i].from : i \in 1..Len(signed_tx.signatures)}

LeavesOfSignDoc(sign_doc) ==
    {sign_doc.auth_info_bytes.signer_infos[1].public_key.key.from}

\* the body that _broadcast_tx posts
BroadcastBody(signed_tx) ==
    [tx_bytes |-> [base64_json |-> signed_tx], mode |-> "BROADCAST_MODE_SYNC"]

BroadcastResponses ==
    {[raised |-> TRUE, tx_response |-> <<>>],
     [raised |-> FALSE, tx_response |-> <<>>],
     [raised |-> FALSE, tx_response |-> <<[txhash |-> "AB12", code |-> 0]>>],
     [raised |-> FALSE, tx_response |-> <<[txhash |-> "CD34", code |-> 5]>>]}

TxMessages == {[i \in 1..n |-> "MsgSend"] : n \in 0..MaxTxMessages}

TxOptions ==
    {DefaultGasOptions,
     [gas_limit |-> <<150000>>, gas_price |-> <<"0.05upaw">>, memo |-> "m"]}

\* the calls of sign_and_broadcast that can be in progress at a time
Calls == {1, 2}

NoTx ==
    [pc |-> "idle", w |-> 0, messages |-> <<>>, options |-> DefaultGasOptions,
     response |-> <<>>, account_info |-> <<>>, sign_doc |-> <<>>, signed_tx |-> <<>>,
     reads |-> {}, err |-> "", result |-> <<>>, overlap |-> FALSE]

InitTx ==
    /\ client = [_wallet |-> <<>>, _tx_builder |-> <<>>]
    /\ lastConnected = <<>>
    /\ tx = [c \in Calls |-> NoTx]
    /\ net = <<>>

\* a connect_wallet that keeps a transaction builder that exists
ConnectWalletKeepsBuilder(self, w) ==
    [_wallet |-> <<w>>,
     _tx_builder |-> IF self._tx_builder = <<>> THEN <<[wallet |-> w]>> ELSE self._tx_builder]

\* PawClient.connect_wallet: the client after the call
ConnectWalletCall(self, w) ==
    [_wallet |-> <<w>>, _tx_builder |-> <<[wallet |-> w]>>]

ConnectWallet(w) ==
    /\ client' = ConnectWalletCall(client, w)
    /\ lastConnected' = <<w>>
    /\ lastCall' = [op |-> "client.connect_wallet", w |-> w, arg |-> <<>>, hd |-> "",
                    err |-> "", derived |-> FALSE, ret |-> <<>>]
    /\ UNCHANGED <<tx, net>>
    /\ UNCHANGED <<wallet, example, sigs, lastGood>>
    /\ UNCHANGED <<storeVars, mnemVars, cliVars>>

\* PawClient.wallet: err is "" or the exception raised
ClientWalletProp(self) ==
    IF self._wallet = <<>> THEN [err |-> "RuntimeError", ret |-> <<>>]
    ELSE [err |-> "", ret |-> self._wallet]

\* PawClient.tx_builder
TxBuilderProp(self) ==
    IF self._tx_builder = <<>> THEN [err |-> "RuntimeError", ret |-> <<>>]
    ELSE [err |-> "", ret |-> self._tx_builder]

\* PawClient.is_connected
IsConnected(self) == self._wallet # <<>>

ReadClientWallet ==
    \E r \in {ClientWalletProp(client)} :
        /\ lastCall' = [op |-> "client.wallet", w |-> 0, arg |-> <<>>, hd |-> "",
                        err |-> r.err, derived |-> FALSE, ret |-> r.ret]
        /\ UNCHANGED <<wallet, example, sigs, lastGood>>
        /\ UNCHANGED <<storeVars, mnemVars, cliVars, txVars>>

ReadTxBuilder ==
    \E r \in {TxBuilderProp(client)} :
        /\ lastCall' = [op |-> "client.tx_builder", w |-> 0, arg |-> <<>>, hd |-> "",
                        err |-> r.err, derived |-> FALSE, ret |-> r.ret]
        /\ UNCHANGED <<wallet, example, sigs, lastGood>>
        /\ UNCHANGED <<storeVars, mnemVars, cliVars, txVars>>

CallIsConnected ==
    /\ lastCall' = [op |-> "client.is_connected", w |-> 0, arg |-> <<>>, hd |-> "",
                    err |-> "", derived |-> FALSE, ret |-> <<IsConnected(client)>>]
    /\ UNCHANGED <<wallet, example, sigs, lastGood>>
    /\ UNCHANGED <<storeVars, mnemVars, cliVars, txVars>>

\* the requests that call c has sent
RequestsOf(c) ==
    LET ByCall(r) == r.call = c IN Len(SelectSeq(net, ByCall))

InFlight(c) == tx[c].pc \in {"get", "post"}

\* sign_and_broadcast up to the await of client.get
SbStart(c) ==
    /\ client._tx_builder # <<>>
    /\ tx[c].pc \in {"idle", "done", "failed"}
    /\ RequestsOf(c) + 2 <= MaxRequests
    /\ \E messages \in TxMessages, options \in TxOptions :
        \E address \in {AddressProp(wallet[client._tx_builder[1].wallet])} :
            /\ IF address.err # ""
               THEN /\ tx' = [tx EXCEPT ![c] =
                                [NoTx EXCEPT !.pc = "failed", !.w = client._tx_builder[1].wallet,
                                             !.messages = messages, !.options = options,
                                             !.reads = {"address"}, !.err = address.err]]
                    /\ net' = net
               ELSE /\ tx' = [d \in Calls |->
                                IF d = c
                                THEN [NoTx EXCEPT !.pc = "get",
                                                  !.w = client._tx_builder[1].wallet,
                                                  !.messages = messages, !.options = options,
                                                  !.reads = {"address"},
                                                  !.overlap = \E e \in Calls \ {c} : InFlight(e)]
                                ELSE IF InFlight(d) THEN [tx[d] EXCEPT !.overlap = TRUE]
                                ELSE tx[d]]
                    /\ net' = Append(net, [method |-> "GET", call |-> c,
                                           path |-> "/cosmos/auth/v1beta1/accounts/",
                                           arg |-> <<Leaf("address", address.ret[1])>>])
            /\ UNCHANGED <<client, lastConnected>>
            /\ UNCHANGED <<storeVars, mnemVars, walletVars, cliVars>>

\* from the answer of client.get to the await of client.post
SbAccount(c) ==
    \E response \in AccountResponses, k \in Nonces :
        /\ tx[c].pc = "get"
        /\ LET account_info == GetAccountInfo(response)
               tx_body == BuildTxBody(tx[c].messages, tx[c].options.memo)
               gas_limit == IF tx[c].options.gas_limit = <<>> THEN EstimateGas(tx_body)
                            ELSE tx[c].options.gas_limit[1]
               gas_price == IF tx[c].options.gas_price = <<>> THEN ConfigGasPrice
                            ELSE tx[c].options.gas_price[1]
               got == [tx[c] EXCEPT !.response = <<response>>,
                                    !.account_info = <<account_info>>]
           IN  \E auth_info \in {BuildAuthInfo(wallet[tx[c].w], gas_limit, gas_price)} :
                 IF auth_info.err # ""
                 THEN /\ tx' = [tx EXCEPT ![c] =
                                  [got EXCEPT !.pc = "failed",
                                              !.reads = @ \cup {"public_key"},
                                              !.err = auth_info.err]]
                      /\ net' = net
                 ELSE \E signed \in {SignTx(wallet[tx[c].w], tx_body, auth_info.ret[1],
                                            account_info, k)} :
                        /\ signed.err # "RSZeroError"
                        /\ IF signed.err # ""
                           THEN /\ tx' = [tx EXCEPT ![c] =
                                            [got EXCEPT !.pc = "failed",
                                                        !.sign_doc = signed.sign_doc,
                                                        !.reads = @ \cup {"public_key", "sign"},
                                                        !.err = signed.err]]
                                /\ net' = net
                           ELSE /\ tx' = [tx EXCEPT ![c] =
                                            [got EXCEPT !.pc = "post",
                                                        !.sign_doc = signed.sign_doc,
                                                        !.signed_tx = signed.ret,
                                                        !.reads = @ \cup LeavesOfSignedTx(signed.ret[1])]]
                                /\ net' = Append(net, [method |-> "POST", call |-> c,
                                                       path |-> "/cosmos/tx/v1beta1/txs",
                                                       arg |-> <<BroadcastBody(signed.ret[1])>>])
        /\ UNCHANGED <<client, lastConnected>>
        /\ UNCHANGED <<storeVars, mnemVars, walletVars, cliVars>>

\* from the answer of client.post to the return of sign_and_broadcast
SbBroadcast(c) ==
    \E response \in BroadcastResponses :
        /\ tx[c].pc = "post"
        /\ tx' = [tx EXCEPT ![c] =
                    IF response.raised THEN [@ EXCEPT !.pc = "failed", !.err = "HTTPError"]
                    ELSE IF response.tx_response = <<>>
                    THEN [@ EXCEPT !.pc = "failed", !.err = "KeyError"]
                    ELSE [@ EXCEPT !.pc = "done",
                                   !.result = <<[transaction_hash |-> response.tx_response[1].txhash,
                                                 code |-> response.tx_response[1].code]>>]]
        /\ UNCHANGED <<client, lastConnected, net>>
        /\ UNCHANGED <<storeVars, mnemVars, walletVars, cliVars>>

\* a phrase on which from_mnemonic succeeds
GoodMnemonic ==
    CHOOSE m \in ValidMnemonics :
        FromMnemonicCall(NewWallet("paw"), m, "m/44'/118'/0'/0/0").err = ""

\* the state after wallet = PawWallet(); wallet.from_mnemonic(GoodMnemonic);
\* client.connect_wallet(wallet)
InitConnected ==
    /\ InitStore /\ InitMnem /\ InitCli
    /\ wallet = [w \in WalletIds |->
                    IF w = 1
                    THEN FromMnemonicCall(NewWallet("paw"), GoodMnemonic, "m/44'/118'/0'/0/0").self
                    ELSE NewWallet("paw")]
    /\ example = <<>>
    /\ lastCall = [op |-> "client.connect_wallet", w |-> 1, arg |-> <<>>, hd |-> "",
                   err |-> "", derived |-> FALSE, ret |-> <<>>]
    /\ sigs = <<>>
    /\ lastGood = [w \in WalletIds |-> IF w = 1 THEN <<GoodMnemonic>> ELSE <<>>]
    /\ client = ConnectWalletCall([_wallet |-> <<>>, _tx_builder |-> <<>>], 1)
    /\ lastConnected = <<1>>
    /\ tx = [c \in Calls |-> NoTx]
    /\ net = <<>>

(***************************************************************************)
(* Specifications.                                                         *)
(***************************************************************************)
Init == InitStore /\ InitMnem /\ InitWallet /\ InitCli /\ InitTx

NextStore == Encrypt \/ Decrypt

SpecStore == Init /\ [][NextStore]_vars

NextTamper == Encrypt \/ TamperSalt \/ TamperData \/ Decrypt

SpecTamper == Init /\ [][NextTamper]_vars

NextUpgrade == Encrypt \/ ChangeIterations \/ Decrypt

SpecUpgrade == Init /\ [][NextUpgrade]_vars

NextFresh == Encrypt \/ Reencrypt

SpecFresh == Init /\ [][NextFresh]_vars

NextMnemonic == Generate \/ Malform \/ Validate

SpecMnemonic == Init /\ [][NextMnemonic]_vars

NextLastWord == Generate \/ ReplaceLastWord \/ Validate

SpecLastWord == Init /\ [][NextLastWord]_vars

NextWallet ==
    \/ \E w \in WalletIds : Construct(w)
    \/ \E w \in WalletIds : FromMnemonic(w)

SpecWallet == Init /\ [][NextWallet]_vars

NextSign == FromMnemonic(1) \/ Sign(1)

NextUse ==
    \/ Construct(1)
    \/ FromMnemonic(1)
    \/ ReadAddress(1)
    \/ ReadPublicKey(1)
    \/ Sign(1)
    \/ ExportMnemonic(1)

SpecUse == Init /\ [][NextUse]_vars

NextExample == FromMnemonic(1) \/ NewExample

SpecExample == Init /\ [][NextExample]_vars

NextCli == CallCreateWallet \/ CallImportWallet \/ RunMain

SpecCli == Init /\ [][NextCli]_vars

NextTx ==
    FromMnemonic(1) \/ ConnectWallet(1) \/ SbStart(1) \/ SbAccount(1) \/ SbBroadcast(1)

NextClient ==
    \/ \E w \in WalletIds : FromMnemonic(w) \/ ConnectWallet(w)
    \/ ReadClientWallet \/ ReadTxBuilder \/ CallIsConnected

SpecClient == Init /\ [][NextClient]_vars

NextPair == \E c \in Calls : SbStart(c) \/ SbAccount(c) \/ SbBroadcast(c)

SpecPair == InitConnected /\ [][NextPair]_vars

SpecTx == Init /\ [][NextTx]_vars

NextKey == FromMnemonic(1) \/ CallGetPublicKey(1) \/ NewExample

SpecKey == Init /\ [][NextKey]_vars

SpecSign == Init /\ [][NextSign]_vars

(***************************************************************************)
(* Claims about the store.                                                 *)
(***************************************************************************)
Decrypted == payload # <<>> /\ out # NoOutcome

\* C1: round trip: a blob that encrypt_wallet made from a non-empty state and
\* a non-empty password, decrypted with that password, gives back a state
\* equal to the one encrypted
C1_RoundTrip ==
    (/\ Decrypted
     /\ tampered = "none"
     /\ stored[1].state # <<>>
     /\ stored[1].password # <<>>
     /\ decPw = stored[1].password)
        => out = Returned(stored[1].state)

\* a round trip of a state of two characters that take four bytes of UTF-8
C1_Witness ==
    /\ Decrypted
    /\ tampered = "none"
    /\ decPw = stored[1].password
    /\ stored[1].password # <<>>
    /\ Len(stored[1].state) = 2
    /\ Len(Utf8Encode(stored[1].state)) = 4
    /\ out.ok

\* C2 as stated: with any password other than the one that encrypted the
\* blob, decrypt_wallet raises the authentication error (Fernet's
\* InvalidToken) and returns no state
C2_AnyOtherPassword ==
    (/\ Decrypted
     /\ tampered = "none"
     /\ decPw # stored[1].password)
        => out = Raised("InvalidToken")

RECURSIVE StripNul(_)
StripNul(b) ==
    IF b # <<>> /\ b[Len(b)] = 0 THEN StripNul(SubSeq(b, 1, Len(b) - 1)) ELSE b

\* two passwords are the same HMAC key: no longer than a block and equal but
\* for NUL bytes at the end, or longer than a block and equal
SameHmacKey(p, q) ==
    LET pb == Utf8Encode(p)
        qb == Utf8Encode(q)
    IN  IF Len(pb) <= Sha256BlockSize /\ Len(qb) <= Sha256BlockSize
        THEN StripNul(pb) = StripNul(qb)
        ELSE pb = qb

\* C2 amended: with a password that is a different HMAC key than the one that
\* encrypted the blob, decrypt_wallet raises InvalidToken and returns no state
C2_WrongPassword ==
    (/\ Decrypted
     /\ tampered = "none"
     /\ ~SameHmacKey(decPw, stored[1].password))
        => out = Raised("InvalidToken")

\* a blob of a non-empty password refused for a wrong, non-empty password
C2_Witness ==
    /\ Decrypted
    /\ tampered = "none"
    /\ stored[1].password # <<>>
    /\ decPw # <<>>
    /\ ~SameHmacKey(decPw, stored[1].password)
    /\ out = Raised("InvalidToken")

\* C3: whatever makes decrypt_wallet fail (a wrong password, a modified token,
\* a modified or malformed salt), the error raised is of the one kind that a
\* wrong password raises
C3_SingleErrorKind ==
    (Decrypted /\ ~out.ok) => out.err = "InvalidToken"

\* C12: a blob written under one default iteration count is decrypted, with
\* the password that encrypted it, after the default was changed
C12_SurvivesIterationChange ==
    (/\ Decrypted
     /\ tampered = "none"
     /\ stored[1].iterations # kdfIterations
     /\ decPw = stored[1].password)
        => out = Returned(stored[1].state)

\* C13: the payload of encrypt_wallet has the two fields data and salt and no
\* other; data is the text of a token and salt the base64 text of the 16 bytes
\* that os.urandom gave; neither is the password, the key or the state
C13_PayloadFields ==
    payload # <<>> =>
        /\ DOMAIN payload[1] = {"data", "salt"}
        /\ payload[1].data.text = "b64"
        /\ DOMAIN payload[1].data = {"text", "ver", "ts", "iv", "ct", "mac"}
        /\ \A i \in 1..Len(payload[1].salt) : payload[1].salt[i] \in 0..PadSym
        /\ B64Decode(payload[1].salt).err = ""
        /\ Len(B64Decode(payload[1].salt).bytes) = SaltLen
        /\ B64Decode(payload[1].salt).bytes \in Salts
        /\ payload[1] = stored[1].payload

\* a payload made from a state and a password of two characters
C13_Witness ==
    /\ payload # <<>>
    /\ Len(stored[1].state) = 2
    /\ Len(stored[1].password) = 2
    /\ Len(payload[1].salt) = 24

\* C14: two calls of encrypt_wallet with the same state and the same password
\* return payloads of different salt and of different ciphertext
C14_FreshPayload ==
    (/\ earlier # <<>>
     /\ earlier[1].state = stored[1].state
     /\ earlier[1].password = stored[1].password)
        => /\ payload[1].salt # earlier[1].payload.salt
           /\ payload[1].data.ct # earlier[1].payload.data.ct
           /\ payload[1].data # earlier[1].payload.data

\* two calls on a non-empty state in which Fernet drew the same IV
C14_Witness ==
    /\ earlier # <<>>
    /\ stored[1].state # <<>>
    /\ earlier[1].state = stored[1].state
    /\ earlier[1].password = stored[1].password
    /\ payload[1].data.iv = earlier[1].payload.data.iv

\* C15 as stated: once data or salt of a payload was modified, decrypt_wallet
\* returns no state
C15_AnyModification ==
    (Decrypted /\ tampered # "none") => ~out.ok

\* the bytes that the text of a token stands for: none when it is not base64
TokenBytes(t) == IF t.text \in {"b64", "junk"} THEN <<[t EXCEPT !.text = "b64"]>> ELSE <<>>

\* the payload stands for the bytes that encrypt_wallet wrote
SameBytes ==
    /\ B64Decode(payload[1].salt) = B64Decode(stored[1].payload.salt)
    /\ TokenBytes(payload[1].data) = TokenBytes(stored[1].payload.data)

\* C15 amended: once the bytes of the token or of the salt were modified,
\* decrypt_wallet returns no state; a modification of the text that leaves the
\* bytes as they were gives the state that was encrypted, and no other
C15_ModifiedBytes ==
    (Decrypted /\ tampered # "none") =>
        /\ ~SameBytes => ~out.ok
        /\ out.ok => out.state = stored[1].state /\ SameHmacKey(decPw, stored[1].password)

\* a token with another timestamp, refused for the password that encrypted it
C15_Witness ==
    /\ Decrypted
    /\ tampered = "data"
    /\ payload[1].data.text = "b64"
    /\ payload[1].data.ts # stored[1].payload.data.ts
    /\ decPw = stored[1].password
    /\ out = Raised("InvalidToken")

(***************************************************************************)
(* Claims about mnemonics.                                                 *)
(***************************************************************************)
\* C5: for every supported strength generate_mnemonic returns
\* strength/32*3 words, and validate_mnemonic of them is true
C5_GenerateValid ==
    (strength \in Strengths /\ origin = "generated")
        => /\ Len(phrase) = (strength \div 32) * 3
           /\ valid \in {"not called", "True"}

\* the default strength: 24 words, validated
C5_Witness ==
    strength = 256 /\ origin = "generated" /\ Len(phrase) = 24 /\ valid = "True"

\* C9: validate_mnemonic never raises: on a phrase with a malformed word count,
\* on the empty string, on a phrase with a word outside the list and on one
\* with a wrong checksum it returns False
C9_ValidateNeverRaises ==
    /\ valid \in {"not called", "True", "False"}
    /\ (origin \in {"count-", "count+", "empty", "unknown", "checksum"} /\ valid # "not called")
           => valid = "False"

\* a phrase with a word outside the list was validated
C9_Witness == origin = "unknown" /\ valid = "False"

\* C10 as stated: whatever other word replaces the last word of a valid
\* mnemonic, validate_mnemonic returns False
C10_AnyLastWord ==
    (origin = "lastword" /\ valid # "not called") => valid = "False"

\* the part of a word of p that is entropy: its index without its checksum bits
EntropyPart(p, w) == w \div (2 ^ CsBits(p))

\* C10 amended: a different last word that carries the same entropy bits, and
\* so differs in the checksum bits only, makes validate_mnemonic return False;
\* no replacement makes it raise
C10_LastWordChecksum ==
    (origin = "lastword" /\ valid # "not called")
        => /\ valid \in {"True", "False"}
           /\ EntropyPart(base, LastWord(phrase)) = EntropyPart(base, LastWord(base))
                  => valid = "False"

\* a replaced last word with the same entropy bits was refused
C10_Witness ==
    /\ origin = "lastword"
    /\ EntropyPart(base, LastWord(phrase)) = EntropyPart(base, LastWord(base))
    /\ valid = "False"

(***************************************************************************)
(* Claims about wallets.                                                   *)
(***************************************************************************)
\* C4: from_mnemonic on a phrase that validate_mnemonic refuses raises
\* ValueError before a seed or a key is derived and leaves every field of the
\* wallet as it was
C4_InvalidMnemonicFailsFast ==
    [][(lastCall'.op = "from_mnemonic" /\ ValidateMnemonic(lastCall'.arg) # "True")
          => /\ lastCall'.err = "ValueError"
             /\ ~lastCall'.derived
             /\ wallet' = wallet]_vars

\* an initialised wallet after a from_mnemonic call that raised ValueError
C4_Witness ==
    /\ lastCall.op = "from_mnemonic"
    /\ lastCall.err = "ValueError"
    /\ wallet[lastCall.w]._address # <<>>
    /\ wallet[lastCall.w]._mnemonic # <<lastCall.arg>>

\* C6: two calls of sign with the same private key and the same message return
\* the same signature
C6_SignDeterministic ==
    (/\ Len(sigs) = 2
     /\ sigs[1].err = ""
     /\ sigs[2].err = ""
     /\ sigs[1].key = sigs[2].key
     /\ sigs[1].message = sigs[2].message)
        => sigs[1].sig = sigs[2].sig

\* C7: a run of from_mnemonic that succeeds yields the private key, public key
\* and address that any wallet of the same prefix holds from the same mnemonic
\* (the same instance before the call, or another instance), whatever the path
C7_DerivationDeterministic ==
    [][(lastCall'.op = "from_mnemonic" /\ lastCall'.err = "")
          => \A v \in WalletIds :
                (/\ wallet[v]._mnemonic = <<lastCall'.arg>>
                 /\ wallet[v].prefix = wallet'[lastCall'.w].prefix)
                    => /\ wallet'[lastCall'.w]._private_key = wallet[v]._private_key
                       /\ wallet'[lastCall'.w]._public_key = wallet[v]._public_key
                       /\ wallet'[lastCall'.w]._address = wallet[v]._address]_vars

\* two instances hold the same keys and address from one mnemonic, the second
\* derived with the other path
C7_Witness ==
    /\ lastCall.op = "from_mnemonic"
    /\ lastCall.err = ""
    /\ lastCall.w = 2
    /\ lastCall.hd = "m/44'/118'/0'/0/1"
    /\ wallet[1]._mnemonic = wallet[2]._mnemonic
    /\ wallet[1].prefix = wallet[2].prefix
    /\ wallet[1]._address # <<>>
    /\ wallet[1]._address = wallet[2]._address
    /\ wallet[1]._private_key = wallet[2]._private_key

\* C8: the SDK wallet and the example wallet, derived from the same valid
\* mnemonic under the prefix "paw", agree on private key, public key and address
C8_ImplementationsAgree ==
    \A w \in WalletIds :
        (/\ example # <<>>
         /\ wallet[w]._address # <<>>
         /\ wallet[w].prefix = "paw"
         /\ wallet[w]._mnemonic = <<example[1].mnemonic>>)
            => /\ wallet[w]._private_key = <<example[1].private_key>>
               /\ wallet[w]._public_key = <<example[1].public_key>>
               /\ wallet[w]._address = <<example[1].address>>

\* C16: export_mnemonic returns the phrase given to the most recent call of
\* from_mnemonic on that wallet that succeeded
C16_ExportsLastGood ==
    (lastCall.op = "export_mnemonic" /\ lastCall.err = "")
        => lastCall.ret = lastGood[lastCall.w]

\* what address, public_key and sign give on a wallet of prefix p right after
\* from_mnemonic succeeded on it
AfterSuccess(w) ==
    /\ lastCall.op = "from_mnemonic"
    /\ lastCall.err = ""
    /\ lastCall.w = w
    /\ lastCall'.w = w

\* C17: after from_mnemonic succeeds on a wallet of prefix p, address is a
\* string that starts with p, public_key is the key of the wallet, not empty,
\* and sign returns a signature, not empty, for each message
C17_UsableAfterSuccess ==
    [][\A w \in WalletIds :
          /\ (AfterSuccess(w) /\ lastCall'.op = "address")
                => /\ lastCall'.err = ""
                   /\ lastCall'.ret[1].hrp = wallet[w].prefix
                   /\ lastCall'.ret[1].data # <<>>
          /\ (AfterSuccess(w) /\ lastCall'.op = "public_key")
                => /\ lastCall'.err = ""
                   /\ lastCall'.ret # <<>>
                   /\ lastCall'.ret[1] = VerifyingKey(wallet[w]._private_key[1]).key
          /\ (AfterSuccess(w) /\ lastCall'.op = "sign")
                => /\ lastCall'.err = ""
                   /\ lastCall'.ret # <<>>
                   /\ Len(lastCall'.ret[1]) = 2]_vars

\* a signature made by a wallet of prefix "cosmos" that holds the phrase of
\* its last successful from_mnemonic
C17_Witness ==
    /\ lastCall.op = "sign"
    /\ lastCall.err = ""
    /\ lastCall.ret # <<>>
    /\ wallet[lastCall.w].prefix = "cosmos"
    /\ wallet[lastCall.w]._mnemonic = lastGood[lastCall.w]
    /\ wallet[lastCall.w]._address[1].hrp = "cosmos"

\* C18: for one mnemonic, from_mnemonic yields the same private key, public
\* key and address under every hd_path: a call that succeeds right after one
\* that succeeded on the same phrase under another path, on a wallet of the
\* same prefix, leaves the values the first call left
C18_PathIgnored ==
    [][(/\ lastCall.op = "from_mnemonic"
        /\ lastCall.err = ""
        /\ lastCall'.op = "from_mnemonic"
        /\ lastCall'.err = ""
        /\ lastCall'.arg = lastCall.arg
        /\ lastCall'.hd # lastCall.hd
        /\ wallet'[lastCall'.w].prefix = wallet[lastCall.w].prefix)
          => /\ wallet'[lastCall'.w]._private_key = wallet[lastCall.w]._private_key
             /\ wallet'[lastCall'.w]._public_key = wallet[lastCall.w]._public_key
             /\ wallet'[lastCall'.w]._address = wallet[lastCall.w]._address]_vars

\* wallet 1 derived under the second path holds what wallet 2 holds from the
\* same phrase
C18_Witness ==
    /\ lastCall.op = "from_mnemonic"
    /\ lastCall.err = ""
    /\ lastCall.w = 1
    /\ lastCall.hd = "m/44'/118'/0'/0/1"
    /\ lastGood[1] = lastGood[2]
    /\ wallet[2]._mnemonic = lastGood[2]
    /\ wallet[1]._private_key = wallet[2]._private_key
    /\ wallet[1]._address = wallet[2]._address
    /\ wallet[1]._address # <<>>

(***************************************************************************)
(* Claims about create_wallet, import_wallet and main.                     *)
(***************************************************************************)
\* C19: create_wallet and import_wallet print no private key and no seed and
\* return none, when they succeed and when they fail: what they print is
\* fixed text, the mnemonic, the address, the public key and the text of an
\* error, and what they return has no field but success, mnemonic, address,
\* public_key and error
C19_NoSecretShown ==
    \A i \in 1..Len(cli) :
        /\ \A j \in 1..Len(cli[i].printed) :
              cli[i].printed[j].kind \in {"text", "mnemonic", "address", "public_key_hex", "error"}
        /\ cli[i].result # <<>> =>
              /\ DOMAIN cli[i].result[1]
                    \subseteq {"success", "mnemonic", "address", "public_key", "error"}
              /\ ~cli[i].result[1].success =>
                    cli[i].result[1].error
                        \in {"Invalid mnemonic phrase",
                             "Invalid mnemonic phrase. Please check and try again.",
                             ErrorText("MalformedPointError"), ErrorText("TypeError")}

\* a create_wallet that succeeded and an import_wallet that failed in the
\* derivation of the key
C19_Witness ==
    /\ Len(cli) = 2
    /\ cli[1].op = "create_wallet"
    /\ cli[1].result[1].success
    /\ cli[2].op = "import_wallet"
    /\ cli[2].arg \in ValidMnemonics
    /\ ~cli[2].result[1].success

\* C20: create_wallet and import_wallet never raise; a phrase that is not
\* valid and a failure of the derivation give a result of success False with
\* one error string and neither address nor public key; a success has address
\* and public key; main exits with status 0 exactly when success is True
C20_ResultOrError ==
    \A i \in 1..Len(cli) :
        /\ cli[i].raised = ""
        /\ cli[i].op \in {"create_wallet", "import_wallet"} =>
              /\ cli[i].result # <<>>
              /\ IF cli[i].result[1].success
                 THEN /\ {"address", "public_key"} \subseteq DOMAIN cli[i].result[1]
                      /\ "error" \notin DOMAIN cli[i].result[1]
                      /\ cli[i].result[1].address.data # <<>>
                 ELSE DOMAIN cli[i].result[1] = {"success", "error"}
              /\ ((cli[i].op = "import_wallet" \/ cli[i].arg # <<>>) /\ Check(cli[i].arg) # "True")
                    => ~cli[i].result[1].success
              /\ (cli[i].arg # <<>> /\ ExampleWallet(cli[i].arg).err # "")
                    => ~cli[i].result[1].success
        /\ cli[i].op = "main" =>
              /\ cli[i].exit # <<>>
              /\ cli[i].exit = <<0>> <=> (cli[i].result # <<>> /\ cli[i].result[1].success)

\* main that exits with 0, and main that imports a valid phrase whose key
\* cannot be derived and exits with 1
C20_Witness ==
    /\ Len(cli) = 2
    /\ cli[1].op = "main"
    /\ cli[1].exit = <<0>>
    /\ cli[2].op = "main"
    /\ cli[2].arg # <<>>
    /\ cli[2].arg[1] \in ValidMnemonics
    /\ cli[2].exit = <<1>>

IsPublicKey(key) ==
    /\ key \in 2..(GroupModulus - 1)
    /\ PowMod(key, GroupOrder, GroupModulus) = 1

OutOfRange(k) == k = 0 \/ k >= GroupOrder

\* C21: the derivation of the public key raises the error of the library for
\* invalid key material exactly when the private scalar is zero or not below
\* the order of the group, and returns a public key for every other scalar:
\* in _get_public_key, in from_mnemonic, which calls it, and in the
\* constructor of the example wallet
C21_ScalarRangeChecked ==
    /\ lastCall.op = "_get_public_key" =>
          IF OutOfRange(lastCall.arg[1])
          THEN lastCall.err = "MalformedPointError" /\ lastCall.ret = <<>>
          ELSE lastCall.err = "" /\ IsPublicKey(lastCall.ret[1])
    /\ (lastCall.op = "from_mnemonic" /\ lastCall.derived) =>
          IF OutOfRange(wallet[lastCall.w]._private_key[1])
          THEN lastCall.err = "MalformedPointError"
          ELSE lastCall.err = "" /\ IsPublicKey(wallet[lastCall.w]._public_key[1])
    /\ lastCall.op = "PAWWallet" =>
          IF OutOfRange(ToSeed(lastCall.arg, <<>>)[1])
          THEN lastCall.err = "MalformedPointError" /\ example = <<>>
          ELSE lastCall.err = "" /\ IsPublicKey(example[1].public_key)

\* _get_public_key of a scalar that is not below the order of the group
C21_Witness ==
    /\ lastCall.op = "_get_public_key"
    /\ lastCall.arg[1] >= GroupOrder
    /\ lastCall.err = "MalformedPointError"

(***************************************************************************)
(* Claims about the form of signatures.                                    *)
(***************************************************************************)
\* ECDSA verification of (r, s) over the number of the digest
Verifies(public_key, number, sig) ==
    LET w == InverseMod(sig[2], GroupOrder)
        u1 == (number * w) % GroupOrder
        u2 == (sig[1] * w) % GroupOrder
        point == (PowMod(GroupGenerator, u1, GroupModulus)
                  * PowMod(public_key, u2, GroupModulus)) % GroupModulus
    IN  XCoord(point) = sig[1]

\* the s of the signature with nonce k before it is encoded
RawS(private_key, number, k) ==
    (InverseMod(k, GroupOrder)
     * ((number + private_key * XCoord(PowMod(GroupGenerator, k, GroupModulus)))
        % GroupOrder)) % GroupOrder

\* C23: a signature that sign returns is the pair of r and s, each of the
\* fixed width, with s at most half the order of the group; it verifies under
\* the public key of the wallet, and the other encoding (r, n - s) of the same
\* signature is not what is returned
C23_LowS ==
    \A i \in 1..Len(sigs) :
        sigs[i].err = "" =>
            /\ Len(sigs[i].sig) = 2
            /\ sigs[i].sig[1] \in 1..(GroupOrder - 1)
            /\ sigs[i].sig[2] \in 1..(GroupOrder - 1)
            /\ 2 * sigs[i].sig[2] <= GroupOrder
            /\ 2 * (GroupOrder - sigs[i].sig[2]) > GroupOrder
            /\ Verifies(VerifyingKey(sigs[i].key[1]).key, Sha256Number(sigs[i].message),
                        sigs[i].sig)

\* a signature whose s was above half the order before it was encoded
C23_Witness ==
    \E i \in 1..Len(sigs) :
        /\ sigs[i].err = ""
        /\ \E k \in Nonces :
              /\ 2 * RawS(sigs[i].key[1], Sha256Number(sigs[i].message), k) > GroupOrder
              /\ sigs[i].sig[1] = XCoord(PowMod(GroupGenerator, k, GroupModulus))
              /\ sigs[i].sig[2]
                    = GroupOrder - RawS(sigs[i].key[1], Sha256Number(sigs[i].message), k)

(***************************************************************************)
(* Claims about the state of a wallet over its life.                       *)
(***************************************************************************)
\* C24: after any calls of from_mnemonic the fields _mnemonic, _private_key,
\* _public_key and _address of a wallet are all None or all set, and when
\* set the private key is the one derived from _mnemonic, the public key is
\* the one of the private key and the address encodes the public key under
\* the prefix of the wallet
C24_FieldsConsistent ==
    \A w \in WalletIds :
        \/ /\ wallet[w]._mnemonic = <<>>
           /\ wallet[w]._private_key = <<>>
           /\ wallet[w]._public_key = <<>>
           /\ wallet[w]._address = <<>>
        \/ /\ wallet[w]._mnemonic # <<>>
           /\ wallet[w]._private_key
                 = <<DerivePrivateKey(ToSeed(wallet[w]._mnemonic[1], <<>>), "m/44'/118'/0'/0/0")>>
           /\ wallet[w]._public_key = <<VerifyingKey(wallet[w]._private_key[1]).key>>
           /\ VerifyingKey(wallet[w]._private_key[1]).err = ""
           /\ wallet[w]._address
                 = <<GetAddress(wallet[w].prefix, wallet[w]._public_key[1]).address>>

\* C25: on a wallet on which no from_mnemonic has succeeded, address,
\* public_key, sign and export_mnemonic raise RuntimeError and return nothing;
\* once a from_mnemonic has succeeded the four succeed, and the fields of the
\* wallet stay set whatever is called later
C25_Lifecycle ==
    /\ lastCall.op \in {"address", "public_key", "sign", "export_mnemonic"} =>
          IF lastGood[lastCall.w] = <<>>
          THEN lastCall.err = "RuntimeError" /\ lastCall.ret = <<>>
          ELSE lastCall.err = "" /\ lastCall.ret # <<>>
    /\ \A w \in WalletIds :
          lastGood[w] # <<>> =>
              /\ wallet[w]._mnemonic # <<>>
              /\ wallet[w]._private_key # <<>>
              /\ wallet[w]._public_key # <<>>
              /\ wallet[w]._address # <<>>

(***************************************************************************)
(* Claims about sign_and_broadcast.                                        *)
(***************************************************************************)
\* call c has signed a transaction and sent it
Broadcast(c) == tx[c].signed_tx # <<>> /\ tx[c].pc \in {"post", "done", "failed"}

SequenceOf(c) == tx[c].signed_tx[1].auth_info.signer_infos[1].sequence

Fetched(c, field) ==
    LET response == tx[c].response[1] IN
    IF response.raised \/ response.account = <<>> THEN "0"
    ELSE IF response.account[1][field] = <<>> THEN "0"
    ELSE response.account[1][field][1]

C27_SigningRaised ==
    /\ tx[1].pc = "failed"
    /\ tx[1].sign_doc # <<>>
    /\ tx[1].err = "MalformedPointError"
    /\ Len(net) = 1

(***************************************************************************)
(* Claims about the client.                                                *)
(***************************************************************************)
\* C28: _wallet is None exactly when _tx_builder is None; is_connected() is
\* True exactly when a wallet was connected; the wallet property and the
\* wallet of the transaction builder are the wallet connected last; before
\* the first connect_wallet the properties wallet and tx_builder raise
\* RuntimeError
C28_ClientConsistent ==
    /\ (client._wallet = <<>>) <=> (client._tx_builder = <<>>)
    /\ IsConnected(client) <=> (lastConnected # <<>>)
    /\ lastConnected # <<>> =>
          /\ ClientWalletProp(client).ret = lastConnected
          /\ TxBuilderProp(client).ret[1].wallet = lastConnected[1]
    /\ lastCall.op = "client.wallet" =>
          IF lastConnected = <<>>
          THEN lastCall.err = "RuntimeError" /\ lastCall.ret = <<>>
          ELSE lastCall.err = "" /\ lastCall.ret = lastConnected
    /\ lastCall.op = "client.tx_builder" =>
          IF lastConnected = <<>>
          THEN lastCall.err = "RuntimeError" /\ lastCall.ret = <<>>
          ELSE lastCall.err = "" /\ lastCall.ret[1].wallet = lastConnected[1]
    /\ lastCall.op = "client.is_connected" =>
          lastCall.ret = <<lastConnected # <<>>>>

\* the transaction builder read after a second wallet was connected in the
\* place of the first, which was initialised
C28_Witness ==
    /\ lastConnected = <<2>>
    /\ wallet[1]._address # <<>>
    /\ wallet[2]._address = <<>>
    /\ lastCall.op = "client.tx_builder"
    /\ lastCall.ret = <<[wallet |-> 2]>>

\* C29: a call of sign_and_broadcast on a connected wallet on which no
\* from_mnemonic has succeeded has raised RuntimeError, having read the
\* address only: it has sent no request and has signed nothing
C29_UninitialisedRaisesFirst ==
    \A c \in Calls :
        (tx[c].pc # "idle" /\ lastGood[tx[c].w] = <<>>) =>
            /\ tx[c].pc = "failed"
            /\ tx[c].err = "RuntimeError"
            /\ tx[c].reads = {"address"}
            /\ tx[c].sign_doc = <<>>
            /\ tx[c].signed_tx = <<>>
            /\ RequestsOf(c) = 0
            /\ net = <<>>

\* the call has raised on a wallet that was connected and never initialised
C29_Witness ==
    /\ client._wallet = <<1>>
    /\ lastGood[1] = <<>>
    /\ wallet[1]._address = <<>>
    /\ tx[1].pc = "failed"
    /\ tx[1].err = "RuntimeError"
    /\ net = <<>>

\* the calls on a wallet that only read it
ReadingOps == {"address", "public_key", "sign", "export_mnemonic"}

\* C30: a step that reads address or public_key, calls sign or calls
\* export_mnemonic leaves every field of every wallet as it was, whether the
\* call returned or raised; a step that changes a field of a wallet is a
\* from_mnemonic on it (PawWallet(prefix) puts a new instance in its place)
C30_OnlyFromMnemonicWrites ==
    [][/\ lastCall'.op \in ReadingOps => wallet' = wallet
       /\ \A w \in WalletIds :
              wallet'[w] # wallet[w] =>
                  /\ lastCall'.op \in {"from_mnemonic", "PawWallet"}
                  /\ lastCall'.w = w
                  /\ \A v \in WalletIds \ {w} : wallet'[v] = wallet[v]]_vars

\* export_mnemonic has returned the phrase of an initialised wallet that has
\* signed, and the wallet still holds all it held
C30_Witness ==
    /\ lastCall.op = "export_mnemonic"
    /\ lastCall.err = ""
    /\ lastGood[1] # <<>>
    /\ wallet[1]._mnemonic = lastCall.ret
    /\ wallet[1]._private_key # <<>>
    /\ wallet[1]._public_key # <<>>
    /\ wallet[1]._address # <<>>
    /\ \E i \in 1..Len(sigs) : sigs[i].w = 1 /\ sigs[i].err = ""

\* a read has raised on a wallet that holds a phrase and no key
C30_RaisedOnPartial ==
    /\ lastCall.op \in {"address", "public_key", "sign"}
    /\ lastCall.err = "RuntimeError"
    /\ wallet[1]._mnemonic # <<>>

====
